---- MODULE Spec2Model ----
(***************************************************************************)
(* Model of the measurement-and-alert pipeline of MyOpenCV:                *)
(*   - NotificationManager (src/utils/notifications.py): rate-limited,     *)
(*     category-scoped alert dispatcher;                                   *)
(*   - ThirdPage (src/main.py): the monitoring session, its debounce, the  *)
(*     inflate (corrective action) button and its completion callbacks.    *)
(*                                                                         *)
(* Lengths are in tenths of a millimetre (12.0 mm is 120).  Time is in     *)
(* whole clock units read from `now` (time.time()).  Messages are          *)
(* sequences of characters.                                                *)
(***************************************************************************)
EXTENDS Integers, Sequences, FiniteSets, TLC

VARIABLES
    notifier,       \* the NotificationManager object: its four fields
    now,            \* the wall clock, time.time()
    calls,          \* observer: the Notifier calls made by the last operation, in order
    episode,        \* observer: per category, the notify_error calls since the last notify_recovery call
    recent,         \* observer: the times of the accepted messages no older than one period
    burst,          \* observer: the run of notify_error calls of a caller with a constant escalate_after
    page,           \* the ThirdPage object, its actuator requests and its pending UI callbacks
    last,           \* observer: the last UI-thread handler and what it found and did
    scenario,       \* observer: how far the measurements of the session follow a given sequence
    threads,        \* the threads inside Notifier operations: the lock, where each thread is, its locals
    worker,         \* the monitoring worker thread: where it is in _update_data_loop and in the camera fetch
    measure,        \* the thresholded frame handed to getImage's segment search, and what the search gave
    appstate,       \* the AppState object shared by the pages: the settings the operator can change
    second          \* the SecondPage object: its stream worker, its pending UI callbacks, the calibration

nvars == <<notifier, now, calls, episode, recent, burst>>
pvars == <<page, last, scenario>>
xvars == <<threads, worker, measure, appstate, second>>
vars ==
    <<notifier, now, calls, episode, recent, burst, page, last, scenario, threads,
      worker, measure, appstate, second>>

----------------------------------------------------------------------------
(* Bounds of the model *)

\* NotificationManager(max_messages_per_period, period_seconds): the constructor
\* arguments of the instance under check (the defaults are 20 and 60).
MaxMessagesPerPeriod == 2
PeriodSeconds == 1
\* the clock stops advancing here
MaxTime == 3
\* a category counter is not incremented past this value
MaxCount == 4
\* largest escalate_after passed by a caller
MaxEscalate == 3
\* a webhook POST takes between 0 and this many clock units (its timeout is 5 s)
MaxPostDelay == 1
\* a burst is this many notify_error calls longer than max_messages_per_period
BurstExtra == 5
\* trigger_count is not incremented past this value
MaxTrigger == 4
\* the camera fetch is followed until its retry counter has reached this value
MaxRetriesSeen == 11

----------------------------------------------------------------------------
(* Program constants *)

ALERT_WEBHOOK == "alert_webhook"
OPERATIONS_WEBHOOK == "operations_webhook"
\* _truncate_message's max_length
MaxLength == 180

Categories == {"width_low", "inflate_request"}

\* a text of n characters
Chars(n) == [i \in 1..n |-> "x"]
\* the (webhook_url, message) arguments of a call: no webhook, a blank text, and
\* a text on each of the two channels
Requests ==
    {[url |-> "", message |-> <<" ", "x">>],
     [url |-> OPERATIONS_WEBHOOK, message |-> <<" ">>],
     [url |-> OPERATIONS_WEBHOOK, message |-> <<" ", "x">>]}

\* what one POST does, after some delay: ok when requests.post returned a
\* response on which raise_for_status did not raise, not ok when the try block
\* raised RequestException
Outcomes == [ok : BOOLEAN, delay : 0..MaxPostDelay]

\* what comes back from a requests call: a final response of some status class
\* (a 3xx is final when requests finds no redirect to follow, as for 304 or a
\* missing Location header), or no response at all (ConnectionError, Timeout,
\* TooManyRedirects)
Responses == {"2xx", "3xx", "4xx_5xx", "no_response"}

\* response.raise_for_status() raises HTTPError for a 4xx or 5xx status only
raise_for_status(response) == response = "4xx_5xx"

\* the try block of _send_locked: requests.post, then raise_for_status
post(response, delay) ==
    [ok |-> ~(response = "no_response" \/ raise_for_status(response)),
     delay |-> delay]

----------------------------------------------------------------------------
(* NotificationManager *)

NewNotificationManager(max_messages, period) ==
    [max_messages_per_period |-> max_messages,
     period_seconds |-> period,
     sent_times |-> <<>>,
     error_state |-> <<>>]

\* str.strip(): leading and trailing blanks removed
RECURSIVE lstrip(_)
lstrip(s) == IF s # <<>> /\ Head(s) = " " THEN lstrip(Tail(s)) ELSE s

RECURSIVE rstrip(_)
rstrip(s) ==
    IF s # <<>> /\ s[Len(s)] = " " THEN rstrip(SubSeq(s, 1, Len(s) - 1)) ELSE s

strip(s) == rstrip(lstrip(s))

truncate_message(message, max_length) ==
    LET m == strip(message) IN
    IF Len(m) <= max_length THEN m
    ELSE SubSeq(m, 1, max_length - 3) \o <<".", ".", ".">>

\* number of decimal digits of a positive count
Digits(n) == IF n < 10 THEN 1 ELSE IF n < 100 THEN 2 ELSE 3

\* the text appended to an escalated message: 3 + digits + 8 characters
EscalationSuffix(count) == Chars(3 + Digits(count) + 8)

\* the while loop of _can_send_locked: entries older than the period leave the queue
RECURSIVE prune(_, _, _)
prune(q, t, period) ==
    IF q # <<>> /\ t - Head(q) > period THEN prune(Tail(q), t, period) ELSE q

\* _can_send_locked letting the queue reach one entry more than the cap
can_send_locked_inclusive(n, t) ==
    LET q == prune(n.sent_times, t, n.period_seconds) IN
    [sent_times |-> q, ok |-> Len(q) <= n.max_messages_per_period]

\* _can_send_locked: the pruned queue and whether one more message may be sent
can_send_locked(n, t) ==
    LET q == prune(n.sent_times, t, n.period_seconds) IN
    [sent_times |-> q, ok |-> Len(q) < n.max_messages_per_period]

record_send_locked(q, t) == Append(q, t)

\* the result of a Notifier operation: the object and the clock after it, what it
\* returned, the wording it chose, and how far the message got:
\*   "none"          _send_locked was not reached
\*   "empty"         _send_locked returned at once: no webhook or no text
\*   "rate_limited"  _can_send_locked refused it
\*   "failed"        the POST was made and raised RequestException
\*   "sent"          the POST was accepted
NoSend(n, t) ==
    [n |-> n, t |-> t, ret |-> FALSE, outcome |-> "none", wording |-> "none",
     msg_len |-> 0, msg |-> <<>>]

\* _send_locked
send_locked(n, t, webhook_url, message, o) ==
    IF webhook_url = "" \/ message = <<>>
    THEN [NoSend(n, t) EXCEPT !.outcome = "empty"]
    ELSE LET c == can_send_locked(n, t)
             n1 == [n EXCEPT !.sent_times = c.sent_times]
         IN  IF ~c.ok
             THEN [NoSend(n1, t) EXCEPT !.outcome = "rate_limited"]
             ELSE IF ~o.ok
                  THEN [NoSend(n1, t + o.delay) EXCEPT
                            !.outcome = "failed", !.msg_len = Len(message),
                            !.msg = message]
                  ELSE [n |-> [n1 EXCEPT !.sent_times =
                                   record_send_locked(c.sent_times, t + o.delay)],
                        t |-> t + o.delay,
                        ret |-> TRUE, outcome |-> "sent",
                        wording |-> "none", msg_len |-> Len(message),
                        msg |-> message]

\* dict.setdefault(category, {"count": 0, "active": False})
setdefault(es, category) ==
    IF category \in DOMAIN es THEN es
    ELSE [c \in DOMAIN es \cup {category} |->
             IF c = category THEN [count |-> 0, active |-> FALSE] ELSE es[c]]

\* notify_error escalating on every call from the escalate_after-th on
notify_error_from_threshold(n, t, category, webhook_url, base_message, escalate_after, o) ==
    LET base == truncate_message(base_message, MaxLength)
        es0 == setdefault(n.error_state, category)
        count == es0[category].count + 1
        es1 == [es0 EXCEPT ![category] = [count |-> count, active |-> TRUE]]
        n1 == [n EXCEPT !.error_state = es1]
    IN  IF count = 1
        THEN [send_locked(n1, t, webhook_url, base, o) EXCEPT !.wording = "base"]
        ELSE IF escalate_after > 0 /\ count >= escalate_after
             THEN [send_locked(n1, t, webhook_url,
                               base \o EscalationSuffix(count), o)
                       EXCEPT !.wording = "escalated"]
             ELSE NoSend(n1, t)

\* notify_error without suppression: every occurrence is sent
notify_error_unsuppressed(n, t, category, webhook_url, base_message, escalate_after, o) ==
    LET base == truncate_message(base_message, MaxLength)
        es0 == setdefault(n.error_state, category)
        count == es0[category].count + 1
        es1 == [es0 EXCEPT ![category] = [count |-> count, active |-> TRUE]]
        n1 == [n EXCEPT !.error_state = es1]
    IN  IF escalate_after > 0 /\ count = escalate_after
        THEN [send_locked(n1, t, webhook_url,
                          base \o EscalationSuffix(count), o)
                  EXCEPT !.wording = "escalated"]
        ELSE [send_locked(n1, t, webhook_url, base, o) EXCEPT !.wording = "base"]

\* notify_error
notify_error(n, t, category, webhook_url, base_message, escalate_after, o) ==
    LET base == truncate_message(base_message, MaxLength)
        es0 == setdefault(n.error_state, category)
        count == es0[category].count + 1
        es1 == [es0 EXCEPT ![category] = [count |-> count, active |-> TRUE]]
        n1 == [n EXCEPT !.error_state = es1]
    IN  IF count = 1
        THEN [send_locked(n1, t, webhook_url, base, o) EXCEPT !.wording = "base"]
        ELSE IF escalate_after > 0 /\ count = escalate_after
             THEN [send_locked(n1, t, webhook_url,
                               base \o EscalationSuffix(count), o)
                       EXCEPT !.wording = "escalated"]
             ELSE NoSend(n1, t)

\* notify_recovery that clears the category only when the message was transmitted
notify_recovery_when_sent(n, t, category, webhook_url, message, o) ==
    IF category \notin DOMAIN n.error_state \/ ~n.error_state[category].active
    THEN NoSend(n, t)
    ELSE LET r == send_locked(n, t, webhook_url,
                              truncate_message(message, MaxLength), o)
         IN  [r EXCEPT !.wording = "base",
                       !.n.error_state[category] =
                           IF r.ret THEN [count |-> 0, active |-> FALSE] ELSE @]

\* notify_recovery that sends but leaves the counter as it was
notify_recovery_keeps_count(n, t, category, webhook_url, message, o) ==
    IF category \notin DOMAIN n.error_state \/ ~n.error_state[category].active
    THEN NoSend(n, t)
    ELSE LET n1 == [n EXCEPT !.error_state[category].active = FALSE]
         IN  [send_locked(n1, t, webhook_url,
                          truncate_message(message, MaxLength), o)
                  EXCEPT !.wording = "base"]

\* notify_recovery that looks only for the category's entry, not its active flag
notify_recovery_unguarded(n, t, category, webhook_url, message, o) ==
    IF category \notin DOMAIN n.error_state
    THEN NoSend(n, t)
    ELSE LET n1 == [n EXCEPT !.error_state[category] =
                        [count |-> 0, active |-> FALSE]]
         IN  [send_locked(n1, t, webhook_url,
                          truncate_message(message, MaxLength), o)
                  EXCEPT !.wording = "base"]

\* notify_recovery
notify_recovery(n, t, category, webhook_url, message, o) ==
    IF category \notin DOMAIN n.error_state \/ ~n.error_state[category].active
    THEN NoSend(n, t)
    ELSE LET n1 == [n EXCEPT !.error_state[category] =
                        [count |-> 0, active |-> FALSE]]
         IN  [send_locked(n1, t, webhook_url,
                          truncate_message(message, MaxLength), o)
                  EXCEPT !.wording = "base"]

\* _send_with_category
send_with_category(n, t, category, webhook_url, message, o) ==
    [send_locked(n, t, webhook_url, truncate_message(message, MaxLength), o)
         EXCEPT !.wording = "base"]

\* notify_info
notify_info(n, t, category, webhook_url, message, o) ==
    send_with_category(n, t, category, webhook_url, message, o)

\* send_text
send_text(n, t, webhook_url, message, o) ==
    IF webhook_url = "" \/ message = <<>>
    THEN NoSend(n, t)
    ELSE [send_locked(n, t, webhook_url, truncate_message(message, MaxLength), o)
              EXCEPT !.wording = "base"]

----------------------------------------------------------------------------
(* Observers: they record what the operations did and never influence them *)

CountOf(n, category) ==
    IF category \in DOMAIN n.error_state THEN n.error_state[category].count ELSE 0

ActiveOf(n, category) ==
    category \in DOMAIN n.error_state /\ n.error_state[category].active

\* the record of one Notifier call: whether the category was active before it,
\* whether the call changed the Notifier's fields, how far its message got, the
\* wording it chose and what it returned
CallRecord(op, category, before, r) ==
    [op |-> op, category |-> category,
     was_active |-> ActiveOf(before, category),
     mutated |-> r.n # before,
     outcome |-> r.outcome, wording |-> r.wording, ret |-> r.ret]

\* a send attempt: the call handed a message to _send_locked
Attempted(c) == c.outcome # "none"

\* the call made a webhook POST
Posted(c) == c.outcome \in {"failed", "sent"}

\* the accepted messages whose time lies in the window of one period that ends at
\* the clock value t
Window(log, t, period) == SelectSeq(log, LAMBDA x : t - x <= period)

\* the same after the operation with result r
WindowAfter(log, r, period) ==
    IF r.ret THEN Append(Window(log, r.t, period), r.t)
    ELSE Window(log, r.t, period)

NoBurst(k) == [k |-> k, attempts |-> 0, sent |-> 0, start |-> 0]

\* the burst after one more notify_error with result r, called at time t
BurstAfterError(b, first, t, r) ==
    [k |-> b.k,
     attempts |-> b.attempts + (IF r.outcome # "none" THEN 1 ELSE 0),
     sent |-> b.sent + (IF r.ret THEN 1 ELSE 0),
     start |-> IF first THEN t ELSE b.start]

\* no ThirdPage has been opened
NoPage == [open |-> FALSE]
NoThreads == [lock |-> "unused"]
\* the components a specification leaves out stay as they are
NoWorker == [pc |-> "unused"]
NoMeasure == [pc |-> "unused"]
\* AppState(): the defaults of the dataclass; durations in tenths of a second,
\* the detection line ratio in percent
DefaultInflateDuration == 100
DefaultPostInflateWait == 5
DefaultDetectionLineRatio == 60
\* a float: a number of the model's unit, or float("nan")
Float(v) == [nan |-> FALSE, value |-> v]
NaN == [nan |-> TRUE, value |-> 0]
NewAppState ==
    [inflate_duration_seconds |-> Float(DefaultInflateDuration),
     post_inflate_wait_seconds |-> DefaultPostInflateWait,
     detection_line_ratio |-> DefaultDetectionLineRatio]
NoSecond == [open |-> FALSE]
XInit ==
    /\ threads = NoThreads /\ worker = NoWorker /\ measure = NoMeasure
    /\ appstate = NewAppState
    /\ second = NoSecond
NoHandler == [op |-> "none"]
NoScenario ==
    [debounce |-> -1, recovery |-> -1, run |-> 0, requests |-> 0, recoveries |-> 0]

----------------------------------------------------------------------------
(* The Notifier on its own: any caller, any category, any arguments *)

NotifierInit ==
    /\ notifier = NewNotificationManager(MaxMessagesPerPeriod, PeriodSeconds)
    /\ now = 0
    /\ calls = <<>>
    /\ episode = [c \in Categories |-> 0]
    /\ recent = <<>>
    /\ burst = NoBurst(0)
    /\ page = NoPage /\ last = NoHandler /\ scenario = NoScenario
    /\ XInit

\* the state after one Notifier call with result r
Returned(op, category, r) ==
    /\ now <= MaxTime
    /\ notifier' = r.n
    /\ now' = r.t
    /\ calls' = <<CallRecord(op, category, notifier, r)>>
    /\ recent' = WindowAfter(recent, r, notifier.period_seconds)

Tick ==
    /\ now < MaxTime
    /\ now' = now + 1
    /\ recent' = Window(recent, now + 1, notifier.period_seconds)
    /\ UNCHANGED <<notifier, calls, episode, burst>>

CallNotifyError(category, url, message, escalate_after, o) ==
    /\ CountOf(notifier, category) < MaxCount
    /\ Returned("notify_error", category,
                notify_error(notifier, now, category, url, message,
                             escalate_after, o))
    /\ episode' = [episode EXCEPT ![category] = @ + 1]
    /\ UNCHANGED burst

CallNotifyRecovery(category, url, message, o) ==
    /\ Returned("notify_recovery", category,
                notify_recovery(notifier, now, category, url, message, o))
    /\ episode' = [episode EXCEPT ![category] = 0]
    /\ UNCHANGED burst

CallNotifyInfo(category, url, message, o) ==
    /\ Returned("notify_info", category,
                notify_info(notifier, now, category, url, message, o))
    /\ UNCHANGED <<episode, burst>>

CallSendText(url, message, o) ==
    /\ Returned("send_text", "", send_text(notifier, now, url, message, o))
    /\ UNCHANGED <<episode, burst>>

NotifierNext ==
    \/ Tick
    \/ \E category \in Categories, q \in Requests,
          escalate_after \in 1..MaxEscalate, o \in Outcomes :
           CallNotifyError(category, q.url, q.message, escalate_after, o)
    \/ \E category \in Categories, q \in Requests, o \in Outcomes :
           CallNotifyRecovery(category, q.url, q.message, o)
    \/ \E q \in Requests, o \in Outcomes :
           CallNotifyInfo("system", q.url, q.message, o)
    \/ \E q \in Requests, o \in Outcomes :
           CallSendText(q.url, q.message, o)

SpecNotifier == NotifierInit /\ [][NotifierNext /\ UNCHANGED <<pvars, xvars>>]_vars

----------------------------------------------------------------------------
(* The Notifier and its webhook: every call is observed together with what the *)
(* webhook answered, had the call reached the POST                             *)

\* the call just made, the rate window before it and the webhook's answer
Posting(response) ==
    [op |-> "post", response |-> response, sent_before |-> notifier.sent_times]

TransportInit ==
    /\ NotifierInit

PostNotifyError(category, q, escalate_after, response, delay) ==
    /\ CallNotifyError(category, q.url, q.message, escalate_after,
                       post(response, delay))
    /\ last' = Posting(response)
    /\ UNCHANGED <<page, scenario, xvars>>

PostNotifyRecovery(category, q, response, delay) ==
    /\ CallNotifyRecovery(category, q.url, q.message, post(response, delay))
    /\ last' = Posting(response)
    /\ UNCHANGED <<page, scenario, xvars>>

PostNotifyInfo(q, response, delay) ==
    /\ CallNotifyInfo("system", q.url, q.message, post(response, delay))
    /\ last' = Posting(response)
    /\ UNCHANGED <<page, scenario, xvars>>

TransportTick == Tick /\ UNCHANGED <<pvars, xvars>>

\* the category the observed caller reports under
TransportCategory == "width_low"

TransportNext ==
    \/ TransportTick
    \/ \E q \in Requests,
          escalate_after \in 1..MaxEscalate,
          response \in Responses, delay \in 0..MaxPostDelay :
           PostNotifyError(TransportCategory, q, escalate_after, response, delay)
    \/ \E q \in Requests,
          response \in Responses, delay \in 0..MaxPostDelay :
           PostNotifyRecovery(TransportCategory, q, response, delay)
    \/ \E q \in Requests, response \in Responses, delay \in 0..MaxPostDelay :
           PostNotifyInfo(q, response, delay)

SpecTransport == TransportInit /\ [][TransportNext]_vars

----------------------------------------------------------------------------
(* The Notifier given long texts: every call is observed together with the     *)
(* text it was given and the text it POSTed                                    *)

\* a text of n characters that differ from their neighbours
Text(n) == [i \in 1..n |-> <<"a", "b", "c">>[(i % 3) + 1]]

\* the texts callers pass: shorter than, as long as and longer than the maximum
\* length, bare or with blanks around them
GivenTexts ==
    {Text(n) : n \in {1, MaxLength - 12, MaxLength, MaxLength + 1, MaxLength + 20}}
    \cup {<<" ">> \o Text(n) \o <<" ", " ">> : n \in {MaxLength, MaxLength + 1}}

MessageCategory == "inflate_request"

\* the text given to the call just made and the text it handed to requests.post
Said(given, r) == [op |-> "message", given |-> given, msg |-> r.msg]

SayError(given, escalate_after, o) ==
    /\ CallNotifyError(MessageCategory, OPERATIONS_WEBHOOK, given,
                       escalate_after, o)
    /\ last' = Said(given, notify_error(notifier, now, MessageCategory,
                                        OPERATIONS_WEBHOOK, given,
                                        escalate_after, o))
    /\ UNCHANGED <<page, scenario, xvars>>

SayRecovery(given, o) ==
    /\ CallNotifyRecovery(MessageCategory, OPERATIONS_WEBHOOK, given, o)
    /\ last' = Said(given, notify_recovery(notifier, now, MessageCategory,
                                           OPERATIONS_WEBHOOK, given, o))
    /\ UNCHANGED <<page, scenario, xvars>>

SayInfo(given, o) ==
    /\ CallNotifyInfo("system", OPERATIONS_WEBHOOK, given, o)
    /\ last' = Said(given, notify_info(notifier, now, "system",
                                       OPERATIONS_WEBHOOK, given, o))
    /\ UNCHANGED <<page, scenario, xvars>>

MessagesTick == Tick /\ UNCHANGED <<pvars, xvars>>

MessagesNext ==
    \/ MessagesTick
    \/ \E given \in GivenTexts, escalate_after \in 1..MaxEscalate, o \in Outcomes :
           SayError(given, escalate_after, o)
    \/ \E given \in GivenTexts, o \in Outcomes : SayRecovery(given, o)
    \/ \E given \in GivenTexts, o \in Outcomes : SayInfo(given, o)

SpecMessages == NotifierInit /\ [][MessagesNext]_vars

----------------------------------------------------------------------------
(* One caller reporting a persistent fault: a single category and a constant  *)
(* escalate_after, with recoveries in between the runs of errors              *)

BurstCategory == "camera_processing"

EpisodeInit ==
    /\ \E n \in 1..MaxMessagesPerPeriod :
           notifier = NewNotificationManager(n, PeriodSeconds)
    /\ now = 0
    /\ calls = <<>>
    /\ episode = [c \in Categories \cup {BurstCategory} |-> 0]
    /\ recent = <<>>
    /\ \E k \in 2..MaxEscalate : burst = NoBurst(k)
    /\ page = NoPage /\ last = NoHandler /\ scenario = NoScenario
    /\ XInit

BurstNotifyError(url, message, o) ==
    LET r == notify_error(notifier, now, BurstCategory, url, message, burst.k, o)
    IN  /\ CountOf(notifier, BurstCategory)
               < notifier.max_messages_per_period + BurstExtra
        /\ Returned("notify_error", BurstCategory, r)
        /\ episode' = [episode EXCEPT ![BurstCategory] = @ + 1]
        /\ burst' = BurstAfterError(burst, episode[BurstCategory] = 0, now, r)

BurstNotifyRecovery(url, message, o) ==
    /\ Returned("notify_recovery", BurstCategory,
                notify_recovery(notifier, now, BurstCategory, url, message, o))
    /\ episode' = [episode EXCEPT ![BurstCategory] = 0]
    /\ burst' = NoBurst(burst.k)

EpisodeNext ==
    \/ Tick
    \/ \E q \in Requests, o \in Outcomes :
           BurstNotifyError(q.url, q.message, o)
    \/ \E q \in Requests, o \in Outcomes :
           BurstNotifyRecovery(q.url, q.message, o)

SpecEpisode == EpisodeInit /\ [][EpisodeNext /\ UNCHANGED <<pvars, xvars>>]_vars

----------------------------------------------------------------------------
(* ThirdPage: the monitoring session *)

\* the debounce count of _handle_measurement
DebounceCount == 3
\* escalate_after of the width_low and of the inflate_request notifications
WidthLowEscalateAfter == 3
InflateErrorEscalateAfter == 2
NoHostEscalateAfter == 1

\* measured lengths and threshold entries, in tenths of a millimetre
Lengths == {95, 100, 110, 120, 130}
\* what the threshold entry holds when monitoring is switched on: <<>> is a text
\* float() rejects
ThresholdEntries == {<<>>, <<100>>, <<120>>}
\* what the inflator host entry holds when it is saved
HostEntries == {"", "inflator"}

\* the webhook transport during a session: the session is observed within one
\* clock unit, so a POST takes no time; the page reads neither the clock nor
\* what the Notifier returns
PageOutcomes == [ok : BOOLEAN, delay : {0}]

\* the length of f"{x:.2f}" for a length of so many tenths
Fixed2Len(tenths) == IF tenths < 100 THEN 4 ELSE IF tenths < 1000 THEN 5 ELSE 6

WidthLowMessage(length_mm) == Chars(5 + Fixed2Len(length_mm) + 2)
AutoInflateMessage(length_mm) == Chars(8 + Fixed2Len(length_mm) + 2)
WidthRecoveredMessage == Chars(6)
MonitoringStoppedMessage == Chars(7)
NoHostMessage == Chars(9)
InflateFailedMessage == Chars(5 + 20)
InflateRecoveredMessage == Chars(8)

\* ThirdPage.__init__, with the actuator requests (threads running
\* request_inflate), the completion callbacks they have scheduled and the
\* scheduled _remove_inflate_button timers
NewThirdPage(host) ==
    [open |-> TRUE,
     threshold |-> <<>>,
     is_monitoring |-> FALSE,
     trigger_count |-> 0,
     width_alert_active |-> FALSE,
     inflate_button |-> "none",
     inflator_host |-> host,
     inflight |-> 0,
     callbacks |-> <<>>,
     timers |-> 0]

\* what a handler works on: the page, the Notifier and the clock, and what it has
\* done so far: its Notifier calls, the actuator requests it started and the
\* calls of handle_inflate made by _trigger_inflate
World(p, n, t) ==
    [p |-> p, n |-> n, t |-> t, calls |-> <<>>, started |-> 0, triggered |-> 0]

NotifyError(w, category, url, message, escalate_after, o) ==
    LET r == notify_error(w.n, w.t, category, url, message, escalate_after, o)
    IN  [w EXCEPT !.n = r.n, !.t = r.t,
                  !.calls = Append(@, CallRecord("notify_error", category, w.n, r))]

NotifyRecovery(w, category, url, message, o) ==
    LET r == notify_recovery(w.n, w.t, category, url, message, o)
    IN  [w EXCEPT !.n = r.n, !.t = r.t,
                  !.calls = Append(@, CallRecord("notify_recovery", category, w.n, r))]

NotifyInfo(w, category, url, message, o) ==
    LET r == notify_info(w.n, w.t, category, url, message, o)
    IN  [w EXCEPT !.n = r.n, !.t = r.t,
                  !.calls = Append(@, CallRecord("notify_info", category, w.n, r))]

\* handle_inflate
handle_inflate(w, o) ==
    IF w.p.inflate_button = "none" THEN w
    ELSE IF w.p.inflator_host = ""
         THEN NotifyError([w EXCEPT !.p.inflate_button = "normal"],
                          "inflate_request", OPERATIONS_WEBHOOK, NoHostMessage,
                          NoHostEscalateAfter, o)
         ELSE [w EXCEPT !.p.inflate_button = "disabled",
                        !.p.inflight = @ + 1,
                        !.started = @ + 1]

\* _trigger_inflate calling handle_inflate whatever the button's state
trigger_inflate_unguarded(w, length_mm, o1, o2) ==
    LET w1 == IF w.p.inflate_button = "none"
              THEN [w EXCEPT !.p.inflate_button = "normal"] ELSE w
    IN  NotifyInfo([handle_inflate(w1, o1) EXCEPT !.triggered = @ + 1],
                   "inflate", OPERATIONS_WEBHOOK,
                   AutoInflateMessage(length_mm), o2)

\* _trigger_inflate
trigger_inflate(w, length_mm, o1, o2) ==
    LET w1 == IF w.p.inflate_button = "none"
              THEN [w EXCEPT !.p.inflate_button = "normal"] ELSE w
    IN  IF w1.p.inflate_button # "disabled"
        THEN NotifyInfo([handle_inflate(w1, o1) EXCEPT !.triggered = @ + 1],
                        "inflate", OPERATIONS_WEBHOOK,
                        AutoInflateMessage(length_mm), o2)
        ELSE w1

\* _handle_measurement keeping the trigger counter on a measurement at or above
\* the threshold
handle_measurement_no_reset(w, length_mm, o1, o2, o3) ==
    IF ~w.p.is_monitoring \/ w.p.threshold = <<>> THEN w
    ELSE IF length_mm < w.p.threshold[1]
         THEN LET w1 == [w EXCEPT !.p.trigger_count = @ + 1]
                  w2 == NotifyError(w1, "width_low", ALERT_WEBHOOK,
                                    WidthLowMessage(length_mm),
                                    WidthLowEscalateAfter, o1)
                  w3 == [w2 EXCEPT !.p.width_alert_active = TRUE]
              IN  IF w3.p.trigger_count >= DebounceCount
                  THEN trigger_inflate(w3, length_mm, o2, o3)
                  ELSE w3
         ELSE LET w1 == IF w.p.width_alert_active
                        THEN NotifyRecovery(w, "width_low", ALERT_WEBHOOK,
                                            WidthRecoveredMessage, o1)
                        ELSE w
              IN  [w1 EXCEPT !.p.width_alert_active = FALSE]

\* _handle_measurement
handle_measurement(w, length_mm, o1, o2, o3) ==
    IF ~w.p.is_monitoring \/ w.p.threshold = <<>> THEN w
    ELSE IF length_mm < w.p.threshold[1]
         THEN LET w1 == [w EXCEPT !.p.trigger_count = @ + 1]
                  w2 == NotifyError(w1, "width_low", ALERT_WEBHOOK,
                                    WidthLowMessage(length_mm),
                                    WidthLowEscalateAfter, o1)
                  w3 == [w2 EXCEPT !.p.width_alert_active = TRUE]
              IN  IF w3.p.trigger_count >= DebounceCount
                  THEN trigger_inflate(w3, length_mm, o2, o3)
                  ELSE w3
         ELSE LET w1 == IF w.p.width_alert_active
                        THEN NotifyRecovery(w, "width_low", ALERT_WEBHOOK,
                                            WidthRecoveredMessage, o1)
                        ELSE w
              IN  [w1 EXCEPT !.p.width_alert_active = FALSE,
                             !.p.trigger_count = 0]

\* _on_inflate_success putting the button back at once instead of leaving it
\* disabled for the settle timer
on_inflate_success_rearms(w, o) ==
    LET w1 == [w EXCEPT !.p.trigger_count = 0,
                        !.p.width_alert_active = FALSE,
                        !.p.inflate_button = "normal"]
        w2 == NotifyRecovery(w1, "inflate_request", OPERATIONS_WEBHOOK,
                             InflateRecoveredMessage, o)
    IN  [w2 EXCEPT !.p.timers = @ + 1]

\* _on_inflate_success
on_inflate_success(w, o) ==
    LET w1 == [w EXCEPT !.p.trigger_count = 0, !.p.width_alert_active = FALSE]
        w2 == NotifyRecovery(w1, "inflate_request", OPERATIONS_WEBHOOK,
                             InflateRecoveredMessage, o)
    IN  [w2 EXCEPT !.p.timers = @ + 1]

\* _on_inflate_error reporting the failure and leaving the button as it is
on_inflate_error_keeps_button(w, o) ==
    NotifyError(w, "inflate_request", OPERATIONS_WEBHOOK,
                InflateFailedMessage, InflateErrorEscalateAfter, o)

\* _on_inflate_error
on_inflate_error(w, o) ==
    LET w1 == NotifyError(w, "inflate_request", OPERATIONS_WEBHOOK,
                          InflateFailedMessage, InflateErrorEscalateAfter, o)
    IN  IF w1.p.inflate_button # "none"
        THEN [w1 EXCEPT !.p.inflate_button = "normal"]
        ELSE w1

\* _remove_inflate_button
remove_inflate_button(w) == [w EXCEPT !.p.inflate_button = "none"]

\* what comes back from requests.get(url, timeout=10) in request_inflate
ActuatorResponses == Responses

\* request_inflate: the callback it schedules with after(0, ...)
request_inflate(response) ==
    IF response = "no_response" \/ raise_for_status(response)
    THEN "error" ELSE "success"

\* toggle_monitoring clearing the alert flag before it looks at it
\* toggle_monitoring that leaves the trigger counter as it is when monitoring stops
toggle_monitoring_keeps_count(w, entry, o) ==
    IF ~w.p.is_monitoring
    THEN IF entry = <<>>
         THEN [w EXCEPT !.p.threshold = <<>>]
         ELSE [w EXCEPT !.p.threshold = entry,
                        !.p.trigger_count = 0,
                        !.p.is_monitoring = TRUE,
                        !.p.width_alert_active = FALSE]
    ELSE LET w1 == [w EXCEPT !.p.is_monitoring = FALSE,
                             !.p.threshold = <<>>]
             w2 == IF w1.p.width_alert_active
                   THEN NotifyRecovery(w1, "width_low", ALERT_WEBHOOK,
                                       MonitoringStoppedMessage, o)
                   ELSE w1
         IN  [w2 EXCEPT !.p.width_alert_active = FALSE]

toggle_monitoring_flag_first(w, entry, o) ==
    IF ~w.p.is_monitoring
    THEN IF entry = <<>>
         THEN [w EXCEPT !.p.threshold = <<>>]
         ELSE [w EXCEPT !.p.threshold = entry,
                        !.p.trigger_count = 0,
                        !.p.is_monitoring = TRUE,
                        !.p.width_alert_active = FALSE]
    ELSE [w EXCEPT !.p.is_monitoring = FALSE,
                   !.p.threshold = <<>>,
                   !.p.trigger_count = 0,
                   !.p.width_alert_active = FALSE]

\* toggle_monitoring
toggle_monitoring(w, entry, o) ==
    IF ~w.p.is_monitoring
    THEN IF entry = <<>>
         THEN [w EXCEPT !.p.threshold = <<>>]
         ELSE [w EXCEPT !.p.threshold = entry,
                        !.p.trigger_count = 0,
                        !.p.is_monitoring = TRUE,
                        !.p.width_alert_active = FALSE]
    ELSE LET w1 == [w EXCEPT !.p.is_monitoring = FALSE,
                             !.p.threshold = <<>>,
                             !.p.trigger_count = 0]
             w2 == IF w1.p.width_alert_active
                   THEN NotifyRecovery(w1, "width_low", ALERT_WEBHOOK,
                                       MonitoringStoppedMessage, o)
                   ELSE w1
         IN  [w2 EXCEPT !.p.width_alert_active = FALSE]

\* _save_inflator_host
save_inflator_host(w, host) ==
    IF host = "" THEN w ELSE [w EXCEPT !.p.inflator_host = host]

----------------------------------------------------------------------------
(* Observers of the session *)

\* the measurement sequences of the two scenarios: below, below, at or above,
\* below, below, below; and 10.0, 9.5, 11.0, 13.0 against a threshold of 12.0
DebounceScenario == <<TRUE, TRUE, FALSE, TRUE, TRUE, TRUE>>
RecoveryScenario == <<100, 95, 110, 130>>
RecoveryThreshold == <<120>>

Min(a, b) == IF a < b THEN a ELSE b

\* nothing of an earlier corrective action is left: no button, no request, no
\* callback, no timer
Quiet(p) ==
    /\ p.inflate_button = "none"
    /\ p.inflight = 0 /\ p.callbacks = <<>> /\ p.timers = 0

\* the width_low recovery notifications among the calls of a handler
WidthRecoveries(cs) ==
    Cardinality({i \in 1..Len(cs) :
        /\ cs[i].op = "notify_recovery" /\ cs[i].category = "width_low"
        /\ Attempted(cs[i])})

Advance(pos, seq, x) ==
    IF pos >= 0 /\ pos < Len(seq) /\ seq[pos + 1] = x THEN pos + 1 ELSE -1

\* the scenario observer after a measurement handled while monitoring
ScenarioAfterMeasurement(sc, p, length_mm, w) ==
    LET below == length_mm < p.threshold[1]
        d == Advance(sc.debounce, DebounceScenario, below)
        r == Advance(sc.recovery, RecoveryScenario, length_mm)
        on == d >= 0 \/ r >= 0
    IN  [debounce |-> d,
         recovery |-> r,
         run |-> IF below THEN Min(sc.run + 1, DebounceCount) ELSE 0,
         requests |-> IF on THEN Min(sc.requests + w.triggered, 2) ELSE 0,
         recoveries |-> IF on THEN Min(sc.recoveries + WidthRecoveries(w.calls), 2)
                        ELSE 0]

\* the scenario observer after toggle_monitoring: the sequences are followed from
\* the start of a session that finds the page quiet
ScenarioAfterToggle(p, w) ==
    [debounce |-> IF w.p.is_monitoring /\ Quiet(p) THEN 0 ELSE -1,
     recovery |-> IF w.p.is_monitoring /\ Quiet(p)
                     /\ w.p.threshold = RecoveryThreshold THEN 0 ELSE -1,
     run |-> 0, requests |-> 0, recoveries |-> 0]

\* what the last handler found (the session before it) and did
Handled(op, p, w, below) ==
    [op |-> op,
     below |-> below,
     monitoring_before |-> p.is_monitoring,
     alert_before |-> p.width_alert_active,
     trigger_before |-> p.trigger_count,
     inflight_before |-> p.inflight,
     button_before |-> p.inflate_button,
     response |-> IF op \in {"on_inflate_success", "on_inflate_error"}
                  THEN Head(p.callbacks).response ELSE "none",
     started |-> w.started,
     triggered |-> w.triggered]

----------------------------------------------------------------------------
(* The session: the UI thread's handlers, the actuator and the operator *)

Init ==
    /\ notifier = NewNotificationManager(MaxMessagesPerPeriod, PeriodSeconds)
    /\ now = 0
    /\ calls = <<>>
    /\ episode = [c \in Categories |-> 0]
    /\ recent = <<>>
    /\ burst = NoBurst(0)
    /\ \E host \in HostEntries : page = NewThirdPage(host)
    /\ last = NoHandler
    /\ scenario = NoScenario
    /\ XInit

\* the state after a handler that leaves the world w
Apply(w) ==
    /\ page' = w.p
    /\ notifier' = w.n
    /\ now' = w.t
    /\ calls' = w.calls
    /\ UNCHANGED <<episode, recent, burst, xvars>>

\* the monitoring worker's measurement reaches the UI thread
HandleMeasurement(length_mm, o1, o2, o3) ==
    LET w == handle_measurement(World(page, notifier, now), length_mm, o1, o2, o3)
        monitoring == page.is_monitoring /\ page.threshold # <<>>
        below == monitoring /\ length_mm < page.threshold[1]
    IN  /\ below => /\ page.trigger_count < MaxTrigger
                    /\ CountOf(notifier, "width_low") < MaxCount
                    /\ CountOf(notifier, "inflate_request") < MaxCount
        /\ Apply(w)
        /\ last' = Handled("handle_measurement", page, w, below)
        /\ scenario' = IF monitoring
                       THEN ScenarioAfterMeasurement(scenario, page, length_mm, w)
                       ELSE scenario

\* the operator presses the inflate button; a disabled button ignores the click
PressInflateButton(o) ==
    LET w == handle_inflate(World(page, notifier, now), o) IN
    /\ page.inflate_button = "normal"
    /\ CountOf(notifier, "inflate_request") < MaxCount
    /\ Apply(w)
    /\ last' = Handled("handle_inflate", page, w, FALSE)
    /\ UNCHANGED scenario

\* the actuator answers a request: request_inflate schedules the callback
RequestCompletes(response) ==
    /\ page.inflight > 0
    /\ request_inflate(response) = "error"
       => CountOf(notifier, "inflate_request") < MaxCount
    /\ page' = [page EXCEPT
                    !.inflight = @ - 1,
                    !.callbacks = Append(@, [callback |-> request_inflate(response),
                                             response |-> response])]
    /\ UNCHANGED <<notifier, now, calls, episode, recent, burst, last, scenario,
                   xvars>>

\* the UI thread runs the completion callback
OnInflateSuccess(o) ==
    LET p == [page EXCEPT !.callbacks = Tail(@)]
        w == on_inflate_success(World(p, notifier, now), o)
    IN  /\ page.callbacks # <<>> /\ Head(page.callbacks).callback = "success"
        /\ Apply(w)
        /\ last' = Handled("on_inflate_success", page, w, FALSE)
        /\ UNCHANGED scenario

OnInflateError(o) ==
    LET p == [page EXCEPT !.callbacks = Tail(@)]
        w == on_inflate_error(World(p, notifier, now), o)
    IN  /\ page.callbacks # <<>> /\ Head(page.callbacks).callback = "error"
        /\ Apply(w)
        /\ last' = Handled("on_inflate_error", page, w, FALSE)
        /\ UNCHANGED scenario

\* the settle timer scheduled by _on_inflate_success fires
RemoveInflateButton ==
    LET p == [page EXCEPT !.timers = @ - 1]
        w == remove_inflate_button(World(p, notifier, now))
    IN  /\ page.timers > 0
        /\ Apply(w)
        /\ last' = Handled("remove_inflate_button", page, w, FALSE)
        /\ UNCHANGED scenario

ToggleMonitoring(entry, o) ==
    LET w == toggle_monitoring(World(page, notifier, now), entry, o) IN
    /\ Apply(w)
    /\ last' = Handled("toggle_monitoring", page, w, FALSE)
    /\ scenario' = ScenarioAfterToggle(page, w)

SaveInflatorHost(host) ==
    LET w == save_inflator_host(World(page, notifier, now), host) IN
    /\ Apply(w)
    /\ last' = Handled("save_inflator_host", page, w, FALSE)
    /\ UNCHANGED scenario

Next ==
    \/ \E length_mm \in Lengths, o1, o2, o3 \in PageOutcomes :
           HandleMeasurement(length_mm, o1, o2, o3)
    \/ \E o \in PageOutcomes : PressInflateButton(o)
    \/ \E response \in ActuatorResponses : RequestCompletes(response)
    \/ \E o \in PageOutcomes : OnInflateSuccess(o)
    \/ \E o \in PageOutcomes : OnInflateError(o)
    \/ RemoveInflateButton
    \/ \E entry \in ThresholdEntries, o \in PageOutcomes :
           ToggleMonitoring(entry, o)
    \/ \E host \in HostEntries : SaveInflatorHost(host)

Spec == Init /\ [][Next]_vars

\* The session with what its scheduling guarantees: requests.get has a timeout,
\* so a request thread ends; the Tk main loop runs every callback scheduled with
\* after(), the settle timer included.  Measurements, clicks and toggles are the
\* environment's and may never come.
SessionFairness ==
    /\ WF_vars(\E response \in ActuatorResponses : RequestCompletes(response))
    /\ WF_vars(\E o \in PageOutcomes : OnInflateSuccess(o))
    /\ WF_vars(\E o \in PageOutcomes : OnInflateError(o))
    /\ WF_vars(RemoveInflateButton)

SpecLive == Init /\ [][Next]_vars /\ SessionFairness

----------------------------------------------------------------------------
(* The Notifier under concurrent callers: each operation is taken apart into   *)
(* the reads and writes of its body, and threads interleave wherever the lock  *)
(* lets them                                                                   *)

\* the monitoring worker and the Tk main thread (handlers and after() callbacks)
Threads == {"monitor_worker", "ui"}
\* the category both report under, and the escalate_after they pass
ThreadCategory == "camera_processing"
ThreadEscalateAfter == 2
ThreadOps == {"notify_error", "notify_recovery", "notify_info"}

\* threading.Lock that lets everybody in
lock_acquirable_always(th) == TRUE

\* threading.Lock.acquire() returns when nobody holds the lock
lock_acquirable(th) == th.lock = "free"

NewThreads ==
    [lock |-> "free",
     pc |-> [t \in Threads |-> "idle"],
     op |-> [t \in Threads |-> "none"],
     read |-> [t \in Threads |-> 0],
     observed |-> {},
     duplicate |-> FALSE,
     sends |-> [first |-> 0, escalated |-> 0]]

ThreadsInit ==
    /\ notifier = NewNotificationManager(MaxMessagesPerPeriod, PeriodSeconds)
    /\ now = 0
    /\ calls = <<>>
    /\ episode = [c \in {ThreadCategory} |-> 0]
    /\ recent = <<>>
    /\ burst = NoBurst(0)
    /\ page = NoPage /\ last = NoHandler /\ scenario = NoScenario
    /\ threads = NewThreads
    /\ worker = NoWorker
    /\ measure = NoMeasure
    /\ appstate = NewAppState
    /\ second = NoSecond

\* what the threads' steps leave alone
tfixed == <<calls, recent, burst, page, last, scenario, worker, measure, appstate, second>>

\* the thread leaves the with block and returns
Released(th, t) ==
    [th EXCEPT !.lock = IF @ = t THEN "free" ELSE @, !.pc[t] = "idle",
               !.op[t] = "none", !.read[t] = 0]

\* the notify_error calls that have not yet written their count
Pending ==
    Cardinality({t \in Threads :
        /\ threads.op[t] = "notify_error"
        /\ threads.pc[t] \in {"acquire", "read_count", "write_count"}})

\* a thread calls an operation; _truncate_message works on its own argument
Enter(t, op) ==
    /\ threads.pc[t] = "idle"
    /\ op = "notify_error" => CountOf(notifier, ThreadCategory) + Pending < MaxCount
    /\ threads' = [threads EXCEPT !.pc[t] = "acquire", !.op[t] = op]
    /\ UNCHANGED <<notifier, now, episode>>

\* with self._lock:
Acquire(t) ==
    /\ threads.pc[t] = "acquire"
    /\ lock_acquirable(threads)
    /\ threads' = [threads EXCEPT
                      !.lock = t,
                      !.pc[t] = CASE threads.op[t] = "notify_error" -> "read_count"
                                  [] threads.op[t] = "notify_recovery" -> "check_active"
                                  [] OTHER -> "can_send"]
    /\ UNCHANGED <<notifier, now, episode>>

\* state = setdefault(...); the right-hand side int(state["count"]) + 1
ReadCount(t) ==
    /\ threads.pc[t] = "read_count"
    /\ notifier' = [notifier EXCEPT
                       !.error_state = setdefault(@, ThreadCategory)]
    /\ threads' = [threads EXCEPT
                      !.read[t] = CountOf(notifier, ThreadCategory),
                      !.pc[t] = "write_count"]
    /\ UNCHANGED <<now, episode>>

\* state["count"] = ...; state["active"] = True
WriteCount(t) ==
    /\ threads.pc[t] = "write_count"
    /\ notifier' = [notifier EXCEPT
                       !.error_state[ThreadCategory] =
                           [count |-> threads.read[t] + 1, active |-> TRUE]]
    /\ episode' = [episode EXCEPT ![ThreadCategory] = @ + 1]
    /\ threads' = [threads EXCEPT !.pc[t] = "choose"]
    /\ UNCHANGED now

\* count = int(state["count"]) and the choice of the wording
Choose(t) ==
    LET count == CountOf(notifier, ThreadCategory)
        seen == [threads EXCEPT
                    !.duplicate = @ \/ count \in threads.observed,
                    !.observed = @ \cup {count}]
    IN  /\ threads.pc[t] = "choose"
        /\ threads' =
              IF count = 1
              THEN [seen EXCEPT !.pc[t] = "can_send", !.sends.first = @ + 1]
              ELSE IF ThreadEscalateAfter > 0 /\ count = ThreadEscalateAfter
                   THEN [seen EXCEPT !.pc[t] = "can_send",
                                     !.sends.escalated = @ + 1]
                   ELSE Released(seen, t)
        /\ UNCHANGED <<notifier, now, episode>>

\* notify_recovery: the active test, then count = 0 and active = False
CheckActive(t) ==
    /\ threads.pc[t] = "check_active"
    /\ IF ActiveOf(notifier, ThreadCategory)
       THEN /\ notifier' = [notifier EXCEPT
                               !.error_state[ThreadCategory] =
                                   [count |-> 0, active |-> FALSE]]
            /\ episode' = [episode EXCEPT ![ThreadCategory] = 0]
            /\ threads' = [threads EXCEPT
                              !.pc[t] = "can_send",
                              !.observed = {},
                              !.sends = [first |-> 0, escalated |-> 0]]
       ELSE /\ threads' = Released(threads, t)
            /\ UNCHANGED <<notifier, episode>>
    /\ UNCHANGED now

\* _can_send_locked
CanSend(t) ==
    LET c == can_send_locked(notifier, now) IN
    /\ threads.pc[t] = "can_send"
    /\ notifier' = [notifier EXCEPT !.sent_times = c.sent_times]
    /\ threads' = IF c.ok THEN [threads EXCEPT !.pc[t] = "post"]
                  ELSE Released(threads, t)
    /\ UNCHANGED <<now, episode>>

\* requests.post and raise_for_status
Post(t, o) ==
    /\ threads.pc[t] = "post"
    /\ now + o.delay <= MaxTime
    /\ now' = now + o.delay
    /\ threads' = IF o.ok THEN [threads EXCEPT !.pc[t] = "record_send"]
                  ELSE Released(threads, t)
    /\ UNCHANGED <<notifier, episode>>

\* _record_send_locked
RecordSend(t) ==
    /\ threads.pc[t] = "record_send"
    /\ notifier' = [notifier EXCEPT
                       !.sent_times = record_send_locked(@, now)]
    /\ threads' = Released(threads, t)
    /\ UNCHANGED <<now, episode>>

ThreadsTick ==
    /\ now < MaxTime
    /\ now' = now + 1
    /\ UNCHANGED <<notifier, episode, threads>>

ThreadsNext ==
    \/ \E t \in Threads, op \in ThreadOps : Enter(t, op) /\ UNCHANGED tfixed
    \/ \E t \in Threads : Acquire(t) /\ UNCHANGED tfixed
    \/ \E t \in Threads : ReadCount(t) /\ UNCHANGED tfixed
    \/ \E t \in Threads : WriteCount(t) /\ UNCHANGED tfixed
    \/ \E t \in Threads : Choose(t) /\ UNCHANGED tfixed
    \/ \E t \in Threads : CheckActive(t) /\ UNCHANGED tfixed
    \/ \E t \in Threads : CanSend(t) /\ UNCHANGED tfixed
    \/ \E t \in Threads, o \in Outcomes : Post(t, o) /\ UNCHANGED tfixed
    \/ \E t \in Threads : RecordSend(t) /\ UNCHANGED tfixed
    \/ ThreadsTick /\ UNCHANGED tfixed

SpecThreads == ThreadsInit /\ [][ThreadsNext]_vars

----------------------------------------------------------------------------
(* The monitoring worker: _update_data_loop and the camera fetch it calls      *)

\* get_image_from_url's max_retries parameter; getImage passes no other value
max_retries == 10

\* what the camera does with one GET of /capture within the timeout
CameraResponses == {"image", "undecodable", "non_200", "exception"}
\* what the webhook does with the POST of send_wechat_work_message
WebhookResponses == {"answers", "raises"}
\* what getImage makes of a decoded image
ProcessingOutcomes == {"camera_error", "exception", "zero", "length"}

NewWorker(url) ==
    [pc |-> "loop",
     stop |-> FALSE,
     url |-> url,
     retries |-> 0,
     posted |-> 0,
     response |-> "none",
     result |-> "none"]

WorkerInit ==
    /\ notifier = NewNotificationManager(MaxMessagesPerPeriod, PeriodSeconds)
    /\ now = 0
    /\ calls = <<>>
    /\ episode = [c \in Categories |-> 0]
    /\ recent = <<>>
    /\ burst = NoBurst(0)
    /\ page = NoPage /\ last = NoHandler /\ scenario = NoScenario
    /\ threads = NoThreads
    /\ measure = NoMeasure
    /\ appstate = NewAppState
    /\ second = NoSecond
    /\ \E url \in BOOLEAN : worker = NewWorker(url)

\* what the worker's steps leave alone
wfixed == <<nvars, pvars, threads, measure, appstate, second>>

\* while not self._stop_event.is_set(): and the test of camera_capture_url
LoopHead ==
    /\ UNCHANGED wfixed
    /\ worker.pc = "loop"
    /\ worker' = IF worker.stop THEN [worker EXCEPT !.pc = "done"]
                 ELSE IF ~worker.url
                      THEN [worker EXCEPT !.pc = "wait", !.result = "no_url"]
                      ELSE [worker EXCEPT !.pc = "request", !.retries = 0,
                                          !.posted = 0, !.response = "none"]

\* one pass of the while True of get_image_from_url; posted counts the calls of
\* send_wechat_work_message, each of which is a requests.post to the webhook
get_image_from_url(wk, response, webhook) ==
    CASE response = "image" ->
             [wk EXCEPT !.pc = "process", !.response = response]
      [] response \in {"undecodable", "non_200"} ->
             [wk EXCEPT !.response = response]
      [] OTHER ->
             IF webhook = "raises"
             THEN [wk EXCEPT !.pc = "wait", !.response = response,
                             !.posted = @ + 1, !.result = "unknown_error"]
             ELSE [wk EXCEPT !.response = response, !.posted = @ + 1,
                             !.retries = @ + 1]

\* the camera answers the request, or requests.get raises
Request(response, webhook) ==
    /\ UNCHANGED wfixed
    /\ worker.pc = "request"
    /\ response = "exception" => worker.retries < MaxRetriesSeen
    /\ worker' = get_image_from_url(worker, response, webhook)

Process_aborting(outcome) ==
    /\ UNCHANGED wfixed
    /\ worker.pc = "process"
    /\ worker' = IF outcome \in {"camera_error", "exception"}
                 THEN [worker EXCEPT !.pc = "done", !.result = "unknown_error"]
                 ELSE [worker EXCEPT !.pc = "wait", !.result = "measured"]
\* getImage works on the decoded image; the loop reports what came of it
Process(outcome) ==
    /\ UNCHANGED wfixed
    /\ worker.pc = "process"
    /\ worker' = [worker EXCEPT
                     !.pc = "wait",
                     !.result = CASE outcome = "camera_error" -> "camera_error"
                                  [] outcome = "exception" -> "unknown_error"
                                  [] outcome = "zero" -> "no_white"
                                  [] OTHER -> "measured"]

\* self._stop_event.wait(REFRESH_INTERVAL_SECONDS) returns
Wait ==
    /\ UNCHANGED wfixed
    /\ worker.pc = "wait"
    /\ worker' = [worker EXCEPT !.pc = "loop"]

\* ThirdPage.on_close on the UI thread
OnClose ==
    /\ UNCHANGED wfixed
    /\ ~worker.stop
    /\ worker' = [worker EXCEPT !.stop = TRUE]

\* a step of the worker thread
WorkerStep ==
    \/ LoopHead
    \/ \E response \in CameraResponses, webhook \in WebhookResponses :
           Request(response, webhook)
    \/ \E outcome \in ProcessingOutcomes : Process(outcome)
    \/ Wait

WorkerNext ==
    \/ LoopHead
    \/ \E response \in CameraResponses, webhook \in WebhookResponses :
           Request(response, webhook)
    \/ \E outcome \in ProcessingOutcomes : Process(outcome)
    \/ Wait
    \/ OnClose

\* the worker is a running thread: it keeps taking steps; every request ends
\* within its timeout and every wait within its interval
SpecWorker == WorkerInit /\ [][WorkerNext]_vars /\ WF_vars(WorkerStep)

----------------------------------------------------------------------------
(* Claims about the Notifier *)

\* the number of the calls 1..n that are the first or the k-th
FirstAndKth(n, k) == Cardinality({1, k} \cap 1..n)

\* C1: in a run of notify_error calls on one category with a constant
\* escalate_after = k > 1 and no notify_recovery in between, a send is attempted
\* (the call hands a message to _send_locked) on exactly the 1st call, with the
\* base wording, and the k-th call, with the escalated wording; every other call
\* returns false and attempts nothing.
C1_FirstAndKthOnly ==
    /\ burst.attempts = FirstAndKth(episode[BurstCategory], burst.k)
    /\ \A i \in 1..Len(calls) :
        calls[i].op = "notify_error" =>
            LET nth == episode[calls[i].category] IN
            /\ Attempted(calls[i]) <=> nth \in {1, burst.k}
            /\ nth = 1 => calls[i].wording = "base"
            /\ nth = burst.k => calls[i].wording = "escalated"
            /\ ~Attempted(calls[i]) =>
                   ~calls[i].ret /\ calls[i].wording = "none"

\* the k-th call of a run has just been made and escalated, after calls in between
C1_Witness ==
    /\ calls # <<>> /\ calls[1].op = "notify_error"
    /\ burst.k = MaxEscalate
    /\ episode[BurstCategory] = burst.k
    /\ calls[1].wording = "escalated"
    /\ burst.attempts = 2

\* C5: every send of every operation goes through one rate limit: the accepted
\* messages whose times lie in any window of period_seconds number at most
\* max_messages_per_period, and the timestamp queue never holds more entries
\* than that.
C5_RateLimit ==
    /\ Len(recent) <= notifier.max_messages_per_period
    /\ Len(notifier.sent_times) <= notifier.max_messages_per_period

\* the window is full, old entries have been pruned, and the last call was refused
C5_Witness ==
    /\ calls # <<>> /\ calls[1].outcome = "rate_limited"
    /\ Len(recent) = notifier.max_messages_per_period
    /\ notifier.sent_times # <<>>
    /\ Head(notifier.sent_times) > 0

\* C6: after a burst of max_messages_per_period + 5 notify_error calls on one
\* category with no recovery in between, exactly 2 of its messages were sent on
\* (the first occurrence and the escalation), and when the burst lies within one
\* rate window at most max_messages_per_period were transmitted.
C6_BurstSendsTwo ==
    episode[BurstCategory] = notifier.max_messages_per_period + BurstExtra =>
        /\ burst.attempts = 2
        /\ burst.sent <= 2
        /\ now - burst.start <= notifier.period_seconds =>
               burst.sent <= notifier.max_messages_per_period

\* a whole burst within one window, both of its messages transmitted
C6_Witness ==
    /\ episode[BurstCategory] = notifier.max_messages_per_period + BurstExtra
    /\ now - burst.start <= notifier.period_seconds
    /\ burst.sent = 2

\* C7: notify_recovery on an active category hands its message to the sender and
\* leaves the category at count 0, inactive, so the next notify_error on it is a
\* first occurrence again and is sent on; notify_recovery on a category that is
\* not active returns false, sends nothing and changes nothing.
C7_Recovery ==
    \A i \in 1..Len(calls) :
        LET c == calls[i] IN
        /\ (c.op = "notify_recovery" /\ c.was_active) =>
               /\ Attempted(c)
               /\ CountOf(notifier, c.category) = 0
               /\ ~ActiveOf(notifier, c.category)
        /\ (c.op = "notify_recovery" /\ ~c.was_active) =>
               ~c.ret /\ ~Attempted(c) /\ ~c.mutated
        /\ (c.op = "notify_error" /\ episode[c.category] = 1) =>
               /\ Attempted(c) /\ c.wording = "base"
               /\ CountOf(notifier, c.category) = 1

\* the first notify_error after a recovery has just been transmitted
C7_Witness ==
    /\ calls # <<>> /\ calls[1].op = "notify_error"
    /\ calls[1].was_active = FALSE
    /\ calls[1].category \in DOMAIN notifier.error_state
    /\ episode[calls[1].category] = 1
    /\ calls[1].ret
    /\ Len(notifier.sent_times) = 2

\* C8: of two notify_recovery calls in a row on a category the second returns
\* false, sends nothing and leaves the category state and the rate window as they
\* were, so the two transmit at most one message.
C8_RecoveryIdempotent ==
    [][(calls # <<>> /\ calls[1].op = "notify_recovery") =>
          \A q \in Requests, o \in Outcomes :
              CallNotifyRecovery(calls[1].category, q.url, q.message, o)
              => /\ ~calls'[1].ret
                 /\ ~Attempted(calls'[1])
                 /\ notifier' = notifier
                 /\ recent' = recent]_vars

\* a second recovery in a row has been made on a category whose first recovery
\* was transmitted
C8_Witness ==
    /\ calls # <<>> /\ calls[1].op = "notify_recovery"
    /\ ~calls[1].was_active
    /\ calls[1].category \in DOMAIN notifier.error_state
    /\ episode[calls[1].category] = 0
    /\ notifier.sent_times # <<>>

----------------------------------------------------------------------------
(* Claims about the monitoring session *)

\* C2: in every state of a session at most one actuator request is in flight,
\* and a measurement that trips the debounce count while a request is in flight
\* starts no request and makes no call of handle_inflate.
C2_AtMostOneInFlight ==
    /\ page.inflight <= 1
    /\ page.inflight + Len(page.callbacks) <= 1
    /\ (/\ last.op = "handle_measurement"
        /\ last.below
        /\ last.trigger_before + 1 >= DebounceCount
        /\ last.inflight_before > 0)
       => (last.started = 0 /\ last.triggered = 0)

\* a fourth consecutive low measurement arrived while the request started by the
\* third was still in flight
C2_Witness ==
    /\ last.op = "handle_measurement"
    /\ last.below
    /\ last.trigger_before + 1 >= DebounceCount
    /\ last.inflight_before = 1
    /\ page.inflight = 1
    /\ page.inflate_button = "disabled"

\* C3: while monitoring, a measurement requests the corrective action only when
\* it is the third or a later one of a run of consecutive measurements below the
\* threshold; a measurement at or above the threshold resets the trigger counter
\* to 0; and in a session that starts with no corrective action pending, the
\* sequence below, below, at or above, below, below, below requests the
\* corrective action exactly once, on its last measurement.
C3_Debounce ==
    /\ (last.op = "handle_measurement" /\ last.triggered > 0)
       => (last.below /\ last.monitoring_before /\ scenario.run = DebounceCount)
    /\ (last.op = "handle_measurement" /\ last.monitoring_before /\ ~last.below)
       => (page.trigger_count = 0 /\ scenario.run = 0)
    /\ scenario.debounce \in 1..(Len(DebounceScenario) - 1)
       => scenario.requests = 0
    /\ scenario.debounce = Len(DebounceScenario)
       => /\ scenario.requests = 1
          /\ last.op = "handle_measurement" => last.triggered = 1

\* the sixth measurement of the sequence has just been handled and has started
\* the one actuator request
C3_Witness ==
    /\ scenario.debounce = Len(DebounceScenario)
    /\ last.op = "handle_measurement"
    /\ last.triggered = 1
    /\ last.started = 1
    /\ page.inflight = 1
    /\ page.trigger_count = DebounceCount

\* C4: with threshold 12.0 the measurements 10.0, 9.5, 11.0 request the
\* corrective action exactly once, and a following measurement of 13.0 makes
\* exactly one width_low recovery notification and resets the trigger counter to
\* 0, wherever the actuator's completion callback falls.
C4_EndToEnd ==
    /\ scenario.recovery = Len(RecoveryScenario) - 1 => scenario.requests = 1
    /\ scenario.recovery = Len(RecoveryScenario)
       => /\ scenario.requests = 1
          /\ scenario.recoveries = 1
          /\ page.trigger_count = 0

\* C9: while monitoring, a measurement below the threshold increments the
\* trigger counter and calls notify_error for width_low, and one handled with the
\* alert flag off gets a first-occurrence width_low notification attempted.
C9_EveryEpisodeAnnounced ==
    (last.op = "handle_measurement" /\ last.below)
    => /\ page.trigger_count = last.trigger_before + 1
       /\ calls # <<>>
       /\ calls[1].op = "notify_error" /\ calls[1].category = "width_low"
       /\ ~last.alert_before
          => (Attempted(calls[1]) /\ calls[1].wording = "base")

\* C10: after the completion callback of an actuator request, successful or
\* failed, the trigger counter is 0 and the inflate button is not disabled.
C10_CompletionResets ==
    last.op \in {"on_inflate_success", "on_inflate_error"}
    => /\ page.trigger_count = 0
       /\ page.inflate_button # "disabled"

\* C11: from a successful completion until the settle timer fires, no actuator
\* request is started or in flight, whatever measurements arrive; a measurement
\* below the threshold handled in that period is still counted and reported to
\* the Notifier, only the corrective action is withheld.
C11_SettleSuppressesAction ==
    page.timers > 0
    => /\ page.inflate_button = "disabled"
       /\ page.inflight = 0 /\ page.callbacks = <<>>
       /\ last.op \in {"handle_measurement", "handle_inflate"}
          => (last.started = 0 /\ last.triggered = 0)
       /\ (last.op = "handle_measurement" /\ last.below)
          => /\ page.trigger_count = last.trigger_before + 1
             /\ calls # <<>> /\ calls[1].op = "notify_error"
             /\ page.width_alert_active

\* the third low measurement in a row since the successful completion has been
\* handled while the settle timer is pending: the debounce count is met and
\* nothing was started
C11_Witness ==
    /\ page.timers = 1
    /\ last.op = "handle_measurement"
    /\ last.below
    /\ page.trigger_count >= DebounceCount
    /\ last.started = 0
    /\ page.inflight = 0

\* C12: a completion of an actuator request with anything but a 2xx status, or
\* without a response, runs _on_inflate_error, which leaves the button enabled
\* with no settle timer and calls notify_error for inflate_request; and a
\* measurement that meets the debounce count while the button is enabled and
\* the inflator host is configured starts a new request.
C12_FailureRearms ==
    /\ last.op = "on_inflate_success" => last.response = "2xx"
    /\ last.op = "on_inflate_error"
       => /\ last.response # "2xx"
          /\ page.inflate_button = "normal"
          /\ page.timers = 0
          /\ calls # <<>>
          /\ calls[1].op = "notify_error" /\ calls[1].category = "inflate_request"
    /\ (/\ last.op = "handle_measurement" /\ last.below
        /\ page.trigger_count >= DebounceCount
        /\ last.button_before = "normal"
        /\ page.inflator_host # "")
       => (last.started = 1 /\ last.triggered = 1)

C14_DisableMonitoring ==
    (last.op = "toggle_monitoring" /\ last.monitoring_before)
    => /\ ~page.is_monitoring
       /\ page.threshold = <<>>
       /\ page.trigger_count = 0
       /\ ~page.width_alert_active
       /\ last.alert_before => (Len(calls) = 1 /\ WidthRecoveries(calls) = 1)
       /\ ~last.alert_before => calls = <<>>

\* monitoring was switched off with an alert active and an actuator request in
\* flight
C14_Witness ==
    /\ last.op = "toggle_monitoring"
    /\ last.monitoring_before
    /\ last.alert_before
    /\ last.inflight_before = 1
    /\ last.trigger_before >= DebounceCount
    /\ WidthRecoveries(calls) = 1
    /\ ~page.is_monitoring

\* b is what is left of a after dropping some of its oldest entries
IsSuffix(b, a) == \E k \in 0..Len(a) : b = SubSeq(a, k + 1, Len(a))

\* C15: a notify_info, notify_error or notify_recovery call returns true exactly
\* when its message was POSTed and the webhook answered with a 2xx status; one
\* timestamp is appended to the rate window exactly when it returns true, and a
\* call that returns false appends none.
C15_TrueIffTransmitted ==
    last.op = "post"
    => /\ calls[1].ret <=> (Posted(calls[1]) /\ last.response = "2xx")
       /\ calls[1].ret
          => /\ notifier.sent_times # <<>>
             /\ IsSuffix(SubSeq(notifier.sent_times, 1,
                                Len(notifier.sent_times) - 1),
                         last.sent_before)
       /\ ~calls[1].ret => IsSuffix(notifier.sent_times, last.sent_before)

\* C16: the text a Notifier call hands to requests.post is at most 180
\* characters long, for every operation and wording, and when the text given to
\* the call is longer than that (blanks around it aside) the text handed over is
\* its first 177 characters followed by "...".
C16_MessageWithinMaxLength ==
    (last.op = "message" /\ Posted(calls[1]))
    => /\ Len(last.msg) <= MaxLength
       /\ Len(strip(last.given)) > MaxLength
          => last.msg = SubSeq(strip(last.given), 1, MaxLength - 3)
                        \o <<".", ".", ".">>

\* C17: with threads calling notify_error, notify_recovery and notify_info
\* concurrently, at most one thread is inside an operation's body at a time; the
\* category's count equals the number of notify_error calls since the last
\* recovery (no increment is lost); no two calls of an episode see the same
\* count, so an episode has at most one first-occurrence and one escalation send
\* attempt; and the rate window never holds more than max_messages_per_period
\* timestamps.
C17_AtomicOperations ==
    /\ Cardinality({t \in Threads : threads.pc[t] \notin {"idle", "acquire"}}) <= 1
    /\ \A t \in Threads :
           threads.pc[t] \notin {"idle", "acquire"} => threads.lock = t
    /\ CountOf(notifier, ThreadCategory) = episode[ThreadCategory]
    /\ ~threads.duplicate
    /\ threads.sends.first <= 1 /\ threads.sends.escalated <= 1
    /\ Len(notifier.sent_times) <= notifier.max_messages_per_period

\* one thread waits for the lock while the other, which holds it, has read the
\* count and not yet written it back, in an episode that already had its
\* first-occurrence send
C17_Witness ==
    /\ threads.lock = "monitor_worker"
    /\ threads.pc["monitor_worker"] = "write_count"
    /\ threads.pc["ui"] = "acquire" /\ threads.op["ui"] = "notify_error"
    /\ threads.sends.first = 1
    /\ Len(notifier.sent_times) = notifier.max_messages_per_period

----------------------------------------------------------------------------
(* The segment search of getImage (src/camera/camera.py), on the thresholded *)
(* frame.  A frame is its height, its width and, per row, the set of columns *)
(* whose pixel is 255.                                                        *)

MaxHeight == 3

Widths == {20, 30, 40}

margin_ceil(width) == (width * 5 + 99) \div 100
margin(width) == (width * 5) \div 100

\* the columns at which the runs of the given rows start and end: around both
\* margins and in the middle of the row
Columns(width) ==
    {c \in 0 .. width - 1 :
        \/ c <= margin(width) + 1
        \/ c >= width - margin(width) - 1
        \/ c \in {width \div 2 - 1, width \div 2}}

Runs(width) == {a .. b : a, b \in Columns(width)}

\* a row of the given frames: dark, one run, or two runs
Rows(width) == {r1 \cup r2 : r1, r2 \in Runs(width)}

\* the rows other than the centre row: all dark, or all bright
OtherRows(width) == {{}, 0 .. width - 1}

FramesOf(w) ==
    {[height |-> h, width |-> w,
      img |-> [r \in 0 .. h - 1 |-> IF r = h \div 2 THEN row ELSE other]] :
        h \in 1 .. MaxHeight, row \in Rows(w), other \in OtherRows(w)}

Frames == UNION {FramesOf(w) : w \in Widths}

center_row(threshold_img) == threshold_img.img[threshold_img.height \div 2]

white_pixels(threshold_img) == center_row(threshold_img)

filtered_white(threshold_img) ==
    {c \in white_pixels(threshold_img) :
        /\ c >= margin(threshold_img.width)
        /\ c <= threshold_img.width - margin(threshold_img.width)}

\* np.split at every gap: the maximal runs of consecutive columns of a set
segments(columns) ==
    {[first |-> a, last |-> b] : a, b \in columns} \cap
    {seg \in [first : columns, last : columns] :
        /\ seg.first <= seg.last
        /\ \A c \in seg.first .. seg.last : c \in columns
        /\ seg.first - 1 \notin columns
        /\ seg.last + 1 \notin columns}

len(seg) == seg.last - seg.first + 1

\* max(segments, key=len): the first of the longest segments, from the left
main_segment(columns) ==
    CHOOSE seg \in segments(columns) :
        \A other \in segments(columns) :
            \/ len(other) < len(seg)
            \/ len(other) = len(seg) /\ seg.first <= other.first

white_length_exclusive(seg) == seg.last - seg.first
white_length(seg) == seg.last - seg.first + 1

\* lines 59-84 of getImage, which scans the row height // 2 and no other; with
\* no white column left, main_segment is an empty array and main_segment[-1]
\* raises IndexError
getImage(threshold_img) ==
    IF filtered_white(threshold_img) = {}
    THEN [raised |-> "IndexError", row |-> threshold_img.height \div 2,
          kept |-> {}, start |-> -1, end |-> -1, white_length |-> -1]
    ELSE LET seg == main_segment(filtered_white(threshold_img))
         IN  [raised |-> "none", row |-> threshold_img.height \div 2,
              kept |-> filtered_white(threshold_img),
              start |-> seg.first, end |-> seg.last,
              white_length |-> white_length(seg)]

\* _fetch_image: getImage(base_url, line_position_ratio=...) raises the TypeError
\* of an unexpected keyword argument, whose text names line_position_ratio, and
\* the fallback getImage(base_url) is what runs
fetch_image(threshold_img, line_position_ratio) == getImage(threshold_img)

\* _update_data_loop on what _fetch_image gave: the except Exception branch,
\* the length_px == 0 branch, or the measurement handed to the UI thread
update_data_branch(result) ==
    IF result.raised # "none" THEN "unknown_error"
    ELSE IF result.white_length = 0 THEN "no_white_region"
    ELSE "measurement"

NoResult ==
    [raised |-> "not_called", row |-> -1, kept |-> {}, start |-> -1, end |-> -1,
     white_length |-> -1]

\* what the operator, or a line of url.txt, gives for a number: text that does
\* not parse, or a number
\* what float() makes of an entry or a line: ValueError, a number, or nan
NoNumber == [parses |-> FALSE, nan |-> FALSE, value |-> 0]
Number(v) == [parses |-> TRUE, nan |-> FALSE, value |-> v]
NotANumber == [parses |-> TRUE, nan |-> TRUE, value |-> 0]

RatioInputs == {NoNumber} \cup {Number(v) : v \in {-50, 0, 10, 60, 90, 100, 150}}

Clamp(lo, v, hi) == IF v < lo THEN lo ELSE IF v > hi THEN hi ELSE v

\* AppState.update_detection_line_ratio
update_detection_line_ratio(st, ratio) ==
    LET value == IF ratio.parses THEN ratio.value ELSE DefaultDetectionLineRatio
    IN  [st EXCEPT !.detection_line_ratio =
                       \* min(1.0, nan) is 1.0: nan < 1.0 is false
                       IF ratio.nan THEN 100 ELSE Clamp(0, value, 100)]

MeasureInit ==
    /\ notifier = NewNotificationManager(MaxMessagesPerPeriod, PeriodSeconds)
    /\ now = 0
    /\ calls = <<>>
    /\ episode = [c \in Categories |-> 0]
    /\ recent = <<>>
    /\ burst = NoBurst(0)
    /\ page = NoPage /\ last = NoHandler /\ scenario = NoScenario
    /\ threads = NoThreads /\ worker = NoWorker
    /\ appstate = NewAppState
    /\ second = NoSecond
    /\ measure = [pc |-> "capture"]

mfixed == <<nvars, pvars, threads, worker, second>>

\* the camera delivered the next frame, cropped and thresholded
Capture ==
    /\ measure.pc = "capture"
    /\ \E f \in Frames :
           measure' = [pc |-> "frame", frame |-> f, result |-> NoResult,
                       branch |-> "none"]
    /\ UNCHANGED <<mfixed, appstate>>

\* the worker's call of _fetch_image and the branch its loop takes
GetImage ==
    /\ measure.pc = "frame"
    /\ LET result == fetch_image(measure.frame, appstate.detection_line_ratio)
       IN  measure' = [measure EXCEPT !.pc = "measured", !.result = result,
                                      !.branch = update_data_branch(result)]
    /\ UNCHANGED <<mfixed, appstate>>

\* the wait for the next frame is over
NextCycle ==
    /\ measure.pc = "measured"
    /\ measure' = [pc |-> "capture"]
    /\ UNCHANGED <<mfixed, appstate>>

\* the operator moves the detection line between two captures
UpdateDetectionLineRatio ==
    /\ measure.pc = "capture"
    /\ \E ratio \in RatioInputs : appstate' = update_detection_line_ratio(appstate, ratio)
    /\ UNCHANGED <<mfixed, measure>>

MeasureNext == Capture \/ GetImage \/ NextCycle \/ UpdateDetectionLineRatio

SpecMeasure == MeasureInit /\ [][MeasureNext]_vars

----------------------------------------------------------------------------
(* The binarization of getImage: cv2.threshold on the grey image.  An image   *)
(* is the sequence of its pixels' intensities.                                *)

MaxPixels == 2

thresh == 90
maxval == 255

\* the grey intensities of the given images: both ends of the scale, the
\* threshold and its neighbours, and one well above
GreyLevels == {0, 1, thresh - 1, thresh, thresh + 1, 128, maxval - 1, maxval}

GreyImages == UNION {[1 .. n -> GreyLevels] : n \in 1 .. MaxPixels}

\* cv2.THRESH_BINARY: dst = maxval if src > thresh else 0
threshold_binary_inclusive(src) == IF src >= thresh THEN maxval ELSE 0
threshold_binary(src) == IF src > thresh THEN maxval ELSE 0

\* retval, threshold_img = cv2.threshold(gray_img, 90, 255, cv2.THRESH_BINARY)
threshold(gray_img) == [i \in 1 .. Len(gray_img) |-> threshold_binary(gray_img[i])]

\* the cropped image, converted to grey
CvtColor ==
    /\ measure.pc = "capture"
    /\ \E gray_img \in GreyImages : measure' = [pc |-> "gray", gray_img |-> gray_img]
    /\ UNCHANGED <<mfixed, appstate>>

Threshold ==
    /\ measure.pc = "gray"
    /\ measure' = [pc |-> "binary", gray_img |-> measure.gray_img,
                   threshold_img |-> threshold(measure.gray_img)]
    /\ UNCHANGED <<mfixed, appstate>>

\* the next capture
NextImage ==
    /\ measure.pc = "binary"
    /\ measure' = [pc |-> "capture"]
    /\ UNCHANGED <<mfixed, appstate>>

BinarizeNext == CvtColor \/ Threshold \/ NextImage

SpecBinarize == MeasureInit /\ [][BinarizeNext]_vars

----------------------------------------------------------------------------
(* The settings: what the operator types into the entries of ThirdPage, and   *)
(* the AppState methods that take it.  Durations are in tenths of a second.   *)

DurationInputs == {NoNumber} \cup {Number(v) : v \in {-10, 0, 50}}
WaitInputs == {NoNumber} \cup {Number(v) : v \in {-3, 0, 7}}
SettingLengths == {95, 130}

\* AppState.update_inflate_duration without its test of the sign
update_inflate_duration_unchecked(st, seconds) ==
    IF ~seconds.parses THEN [st |-> st, ok |-> FALSE]
    ELSE [st |-> [st EXCEPT !.inflate_duration_seconds =
                      IF seconds.nan THEN NaN ELSE Float(seconds.value)],
          ok |-> TRUE]
\* AppState.update_inflate_duration: the state after it and what it returns
update_inflate_duration(st, seconds) ==
    IF ~seconds.parses THEN [st |-> st, ok |-> FALSE]
    \* value <= 0 is false for nan
    ELSE IF ~seconds.nan /\ seconds.value <= 0 THEN [st |-> st, ok |-> FALSE]
    ELSE [st |-> [st EXCEPT !.inflate_duration_seconds =
                      IF seconds.nan THEN NaN ELSE Float(seconds.value)],
          ok |-> TRUE]

\* ThirdPage._save_inflate_duration
save_inflate_duration(st, entry) == update_inflate_duration(st, entry).st

\* AppState.update_post_inflate_wait
update_post_inflate_wait(st, seconds) ==
    \* int() raises ValueError for nan as for what is no number
    LET value == IF seconds.parses /\ ~seconds.nan THEN seconds.value
                 ELSE st.post_inflate_wait_seconds
    IN  [st EXCEPT !.post_inflate_wait_seconds = IF value < 0 THEN 0 ELSE value]

\* ThirdPage._save_post_inflate_wait: seconds = max(0, int(value)), or the
\* error box and return when int() raises ValueError
save_post_inflate_wait(st, entry) ==
    IF ~entry.parses \/ entry.nan THEN st
    ELSE update_post_inflate_wait(st, Number(IF entry.value < 0 THEN 0 ELSE entry.value))

\* observer: the operation, what it was given, and the page and the AppState
\* as they were before it
Setting(op, input, rejected) ==
    [op |-> op, input |-> input, rejected |-> rejected,
     page_before |-> page, appstate_before |-> appstate]

SaveInflateDuration(entry) ==
    /\ appstate' = save_inflate_duration(appstate, entry)
    /\ last' = Setting("save_inflate_duration", entry, ~entry.parses \/ entry.value <= 0)
    /\ UNCHANGED <<nvars, page, scenario, threads, worker, measure, second>>

SavePostInflateWait(entry) ==
    /\ appstate' = save_post_inflate_wait(appstate, entry)
    /\ last' = Setting("save_post_inflate_wait", entry, ~entry.parses)
    /\ UNCHANGED <<nvars, page, scenario, threads, worker, measure, second>>

\* a caller of AppState.update_detection_line_ratio
SetDetectionLineRatio(ratio) ==
    /\ appstate' = update_detection_line_ratio(appstate, ratio)
    /\ last' = Setting("update_detection_line_ratio", ratio, ~ratio.parses)
    /\ UNCHANGED <<nvars, page, scenario, threads, worker, measure, second>>

\* the operator presses the monitoring button
SetThreshold(entry, o) ==
    LET w == toggle_monitoring(World(page, notifier, now), entry, o) IN
    /\ Apply(w)
    /\ last' = Setting("toggle_monitoring",
                       IF entry = <<>> THEN NoNumber ELSE Number(entry[1]),
                       ~page.is_monitoring /\ entry = <<>>)
    /\ UNCHANGED scenario

\* a measurement reaches the UI thread, short of the one that starts the
\* corrective action
SettingsMeasurement(length_mm, o) ==
    /\ page.trigger_count < DebounceCount - 1
    /\ HandleMeasurement(length_mm, o, o, o)

SettingsNext ==
    \/ \E entry \in DurationInputs : SaveInflateDuration(entry)
    \/ \E entry \in WaitInputs : SavePostInflateWait(entry)
    \/ \E ratio \in RatioInputs : SetDetectionLineRatio(ratio)
    \/ \E entry \in ThresholdEntries, o \in PageOutcomes : SetThreshold(entry, o)
    \/ \E length_mm \in SettingLengths, o \in PageOutcomes : SettingsMeasurement(length_mm, o)

SpecSettings == Init /\ [][SettingsNext]_vars

----------------------------------------------------------------------------
(* SecondPage: the live view.  Its stream worker (_update_image_loop), the    *)
(* callbacks it schedules on the UI thread with after(), the operator at the  *)
(* zoom scale, and the calibration that opens ThirdPage.  Known lengths and   *)
(* measured lengths are in tenths of a millimetre; a rate and a length in     *)
(* millimetres are quotients num / den.                                       *)

MaxCallbacks == 2

\* the pixel lengths _fetch_image returns with a frame
PixelLengths == {0, 21}
\* what _fetch_image does: it raises, or returns a frame and its pixel length
FetchOutcomes ==
    {[raised |-> e, white_length |-> 0] : e \in {"CameraProcessingError", "Exception"}}
    \cup {[raised |-> "none", white_length |-> px] : px \in PixelLengths}
\* what the entry of the known length holds when the operator calibrates
RealLengths == {NoNumber} \cup {Number(v) : v \in {0, 105}}
\* the zoom scale, in percent
ZoomValues == {100, 200}

Access(thread, object, access) == [thread |-> thread, object |-> object, access |-> access]

NoThird == [open |-> FALSE, rate |-> [num |-> 0, den |-> 1]]
NoCalibration == [outcome |-> "none", real_length |-> NoNumber, pixel_length |-> 0]
NoMeasurement == [length_px |-> 0, length_mm |-> [num |-> 0, den |-> 1]]

\* SecondPage.__init__ and _start_stream; a frame is known by its pixel length,
\* -1 where there is none
NewSecondPage(url) ==
    [open |-> TRUE,
     pc |-> "loop",
     image_stop_event |-> FALSE,
     url |-> url,
     fetched |-> -1,
     latest_frame_width |-> 0,
     last_frame |-> -1,
     zoom_var |-> 100,
     photo |-> -1,
     callbacks |-> <<>>,
     status_var |-> "",
     canvas |-> -1,
     touched |-> {},
     third |-> NoThird,
     calibration |-> NoCalibration,
     refused_zero |-> FALSE,
     measured |-> NoMeasurement]

SecondInit ==
    /\ notifier = NewNotificationManager(MaxMessagesPerPeriod, PeriodSeconds)
    /\ now = 0
    /\ calls = <<>>
    /\ episode = [c \in Categories |-> 0]
    /\ recent = <<>>
    /\ burst = NoBurst(0)
    /\ page = NoPage /\ last = NoHandler /\ scenario = NoScenario
    /\ threads = NoThreads /\ worker = NoWorker /\ measure = NoMeasure
    /\ appstate = NewAppState
    /\ \E url \in BOOLEAN : second = NewSecondPage(url)

\* what the steps of SecondPage leave alone
sfixed == <<nvars, pvars, threads, worker, measure, appstate>>

\* self.after(0, callback) from the worker thread
After(sp, callback) == [sp EXCEPT !.callbacks = Append(@, callback)]

StatusCallback(text) == [kind |-> "status", text |-> text, photo |-> -1]
DrawCallback(photo) == [kind |-> "draw", text |-> "", photo |-> photo]

\* while not self._image_stop_event.is_set(): and the test of camera_capture_url
StreamLoopHead ==
    /\ second.open /\ second.pc = "loop"
    /\ (~second.image_stop_event /\ ~second.url) => Len(second.callbacks) < MaxCallbacks
    /\ second' =
           IF second.image_stop_event
           THEN [second EXCEPT !.pc = "done", !.touched = {}]
           ELSE IF ~second.url
                THEN [After(second, StatusCallback("no_url")) EXCEPT
                          !.pc = "wait", !.touched = {}]
                ELSE [second EXCEPT !.pc = "fetch", !.touched = {}]
    /\ UNCHANGED sfixed

\* frame, width = _fetch_image(...), and the two except branches
StreamFetch(outcome) ==
    /\ second.open /\ second.pc = "fetch"
    /\ outcome.raised # "none" => Len(second.callbacks) < MaxCallbacks
    /\ second' =
           IF outcome.raised # "none"
           THEN [After(second, StatusCallback(outcome.raised)) EXCEPT
                     !.pc = "wait", !.touched = {}]
           ELSE [second EXCEPT !.pc = "store", !.fetched = outcome.white_length,
                               !.touched = {}]
    /\ UNCHANGED sfixed

\* self._latest_frame_width = width; self._last_frame = frame
StreamStore ==
    /\ second.open /\ second.pc = "store"
    /\ second' = [second EXCEPT
                      !.pc = "convert",
                      !.latest_frame_width = second.fetched,
                      !.last_frame = second.fetched,
                      !.touched = {Access("stream_worker", "_latest_frame_width", "write"),
                                   Access("stream_worker", "_last_frame", "write")}]
    /\ UNCHANGED sfixed

\* photo = self._convert_to_photo_image(frame), which reads the zoom variable
\* and asks the window for the screen width
StreamConvert ==
    /\ second.open /\ second.pc = "convert"
    /\ second' = [second EXCEPT
                      !.pc = "schedule",
                      !.photo = second.fetched,
                      !.touched = {Access("stream_worker", "_zoom_var", "read"),
                                   Access("stream_worker", "winfo_screenwidth", "read")}]
    /\ UNCHANGED sfixed

\* self.after(0, lambda p=photo: self._draw_image(p))
StreamSchedule ==
    /\ second.open /\ second.pc = "schedule"
    /\ Len(second.callbacks) < MaxCallbacks
    /\ second' = [After(second, DrawCallback(second.photo)) EXCEPT
                      !.pc = "wait", !.photo = -1, !.fetched = -1, !.touched = {}]
    /\ UNCHANGED sfixed

\* self._wait_for_next_frame() returns
StreamWait ==
    /\ second.open /\ second.pc = "wait"
    /\ second' = [second EXCEPT !.pc = "loop", !.touched = {}]
    /\ UNCHANGED sfixed

\* the UI thread runs the callback at the head of its queue: the status text is
\* set, or _draw_image puts the photo on the canvas
RunCallback ==
    /\ second.open /\ second.callbacks # <<>>
    /\ LET callback == Head(second.callbacks) IN
       second' =
           IF callback.kind = "status"
           THEN [second EXCEPT !.callbacks = Tail(@),
                               !.status_var = callback.text,
                               !.touched = {Access("ui", "_status_var", "write")}]
           ELSE [second EXCEPT !.callbacks = Tail(@),
                               !.canvas = callback.photo,
                               !.touched = {Access("ui", "canvas", "write")}]
    /\ UNCHANGED sfixed

\* the operator moves the zoom scale: the variable is set and the command runs
\* _redraw_last_image
ZoomChange(zoom) ==
    /\ second.open /\ ~second.third.open
    /\ zoom # second.zoom_var
    /\ second' = [second EXCEPT
                      !.zoom_var = zoom,
                      !.canvas = IF second.last_frame = -1 THEN @ ELSE second.last_frame,
                      !.touched = {Access("ui", "_zoom_var", "write"),
                                   Access("ui", "_last_frame", "read")}
                                  \cup IF second.last_frame = -1 THEN {}
                                       ELSE {Access("ui", "canvas", "write")}]
    /\ UNCHANGED sfixed

Calibration(outcome, real_length, pixel_length) ==
    [outcome |-> outcome, real_length |-> real_length, pixel_length |-> pixel_length]

\* open_third_page dividing by whatever pixel length the capture gave
open_third_page_unguarded(sp, real_length, fetched) ==
    IF ~real_length.parses
    THEN [sp EXCEPT !.calibration = Calibration("refused_input", real_length, 0)]
    ELSE IF fetched.raised # "none"
    THEN [sp EXCEPT !.calibration = Calibration("refused_error", real_length, 0)]
    ELSE [sp EXCEPT
              !.image_stop_event = TRUE,
              !.third = [open |-> TRUE,
                         rate |-> [num |-> real_length.value, den |-> fetched.white_length]],
              !.calibration = Calibration("created", real_length, fetched.white_length)]
\* SecondPage.open_third_page: the known length is read, one frame is fetched on
\* the UI thread, and rate = real_length / pixel_length goes to ThirdPage
open_third_page(sp, real_length, fetched) ==
    IF ~real_length.parses
    THEN [sp EXCEPT !.calibration = Calibration("refused_input", real_length, 0)]
    ELSE IF fetched.raised # "none"
    THEN [sp EXCEPT !.calibration = Calibration("refused_error", real_length, 0)]
    ELSE IF fetched.white_length = 0
    THEN [sp EXCEPT !.calibration = Calibration("refused_zero", real_length, 0),
                    !.refused_zero = TRUE]
    ELSE [sp EXCEPT
              !.image_stop_event = TRUE,
              !.third = [open |-> TRUE,
                         rate |-> [num |-> real_length.value, den |-> fetched.white_length]],
              !.calibration = Calibration("created", real_length, fetched.white_length)]

\* the operator presses the calibration button
OpenThirdPage(real_length, fetched) ==
    /\ second.open /\ ~second.third.open
    /\ second' = [open_third_page(second, real_length, fetched) EXCEPT
                      !.touched = {Access("ui", "real_length_entry", "read")}]
    /\ UNCHANGED sfixed

\* length_mm = length_px * self.rate
length_mm(length_px, rate) == [num |-> length_px * rate.num, den |-> rate.den]

\* a cycle of ThirdPage's worker that ends with a measurement
ThirdMeasure(fetched) ==
    /\ second.open /\ second.third.open
    /\ fetched.raised = "none" /\ fetched.white_length # 0
    /\ second' = [second EXCEPT
                      !.measured = [length_px |-> fetched.white_length,
                                    length_mm |-> length_mm(fetched.white_length,
                                                            second.third.rate)],
                      !.touched = {}]
    /\ UNCHANGED sfixed

SecondNext ==
    \/ StreamLoopHead
    \/ \E outcome \in FetchOutcomes : StreamFetch(outcome)
    \/ StreamStore
    \/ StreamConvert
    \/ StreamSchedule
    \/ StreamWait
    \/ RunCallback
    \/ \E zoom \in ZoomValues : ZoomChange(zoom)
    \/ \E real_length \in RealLengths, fetched \in FetchOutcomes :
           OpenThirdPage(real_length, fetched)
    \/ \E fetched \in FetchOutcomes : ThirdMeasure(fetched)

SpecSecond == SecondInit /\ [][SecondNext]_vars

----------------------------------------------------------------------------
(* Claims about the monitoring worker and the camera fetch *)

\* C28: every failure message goes through the Notifier: the camera fetch, too,
\* posts nothing to a webhook on its own, so that no message escapes the rate
\* limit and the suppression of repeats.
C28_NothingPostedDirectly == worker.posted = 0

\* C26: no outcome of a capture cycle ends the monitoring loop.  Whatever
\* getImage made of the image, and whatever the fetch raised, the worker goes
\* on to its wait of one refresh interval, from the wait to the head of the
\* loop, and from there, with the stop flag not set, into the next cycle; it
\* leaves the loop only with the stop flag set.
C26_LoopSurvives ==
    [][/\ (worker.pc = "process" /\ worker'.pc # "process") => worker'.pc = "wait"
       /\ (worker.pc = "request" /\ worker'.pc # "request") => worker'.pc \in {"process", "wait"}
       /\ (worker.pc = "wait" /\ worker'.pc # "wait") => worker'.pc = "loop"
       /\ (worker.pc = "loop" /\ worker'.pc # "loop" /\ ~worker.stop)
              => worker'.pc \in {"request", "wait"}
       /\ worker'.pc = "done" => worker.stop
      ]_vars

\* the worker is requesting the next image after a cycle that ended in the
\* except Exception branch, and the stop flag is not set
C26_Witness ==
    /\ worker.pc = "request"
    /\ worker.result = "unknown_error"
    /\ worker.response = "none"
    /\ ~worker.stop

\* C18: once on_close has set the stop flag, the worker eventually leaves its
\* loop, whatever the camera does.
C18_Cancellation == worker.stop ~> (worker.pc = "done")

\* C19: get_image_from_url makes at most max_retries retries after transport
\* errors, and when they are used up it is no longer requesting: it has given up.
C19_BoundedRetries ==
    /\ worker.retries <= max_retries
    /\ worker.retries = max_retries => worker.pc # "request"

\* the runs of the scanned row, as they are in the frame
RowRuns == segments(center_row(measure.frame))

InsideMargin(run) ==
    /\ run.first >= margin(measure.frame.width)
    /\ run.last <= measure.frame.width - margin(measure.frame.width)

\* C20: when the scanned row holds a bright run that lies fully inside the
\* margin and is longer than every other run of the row, the segment search
\* gives that run's first and last column and the pixel length
\* end - start + 1, the number of columns of the run.
C20_LocatesTheRun ==
    measure.pc = "measured" =>
        \A run \in RowRuns :
            (/\ InsideMargin(run)
             /\ \A other \in RowRuns \ {run} : len(other) < len(run))
            => /\ measure.result.raised = "none"
               /\ measure.result.start = run.first
               /\ measure.result.end = run.last
               /\ measure.result.white_length = measure.result.end - measure.result.start + 1
               /\ measure.result.white_length =
                      Cardinality(run.first .. run.last)

\* a measured frame whose scanned row holds one run inside the margin, several
\* columns long, and a shorter run at the edge, outside the margin
C20_Witness ==
    /\ measure.pc = "measured"
    /\ measure.frame.width = 40
    /\ \E run \in RowRuns :
        /\ InsideMargin(run)
        /\ len(run) >= 3
        /\ \A other \in RowRuns \ {run} : len(other) < len(run)
        /\ \E other \in RowRuns : other.first = 0
        /\ measure.result.white_length = len(run)

\* the columns of a row of the measured frame that the margin leaves
Usable(r) ==
    {c \in measure.frame.img[r] :
        /\ c >= margin(measure.frame.width)
        /\ c <= measure.frame.width - margin(measure.frame.width)}

FrameRows == 0 .. measure.frame.height - 1

\* C21: for a frame with no usable bright pixel on any row, the measurement
\* has pixel length 0 and no error is raised, and the worker's loop takes its
\* branch for "no white region detected".
C21_NoSegmentGivesZeroLength ==
    (measure.pc = "measured" /\ \A r \in FrameRows : Usable(r) = {})
    => /\ measure.result.raised = "none"
       /\ measure.result.white_length = 0
       /\ measure.branch = "no_white_region"

\* 5% of the width rounded down, and rounded up
FloorOfFivePercent == CHOOSE m \in 0 .. measure.frame.width : 20 * m <= measure.frame.width /\ 20 * (m + 1) > measure.frame.width
CeilOfFivePercent == CHOOSE m \in 0 .. measure.frame.width : 20 * m >= measure.frame.width /\ 20 * (m - 1) < measure.frame.width

ScannedRow == measure.frame.img[measure.result.row]

\* C22, as stated: the columns kept for run detection are those of
\* [m, width - m] with m = ceil(0.05 * width).
C22_MarginRoundedUp ==
    measure.pc = "measured" =>
        measure.result.kept =
            {c \in ScannedRow : c >= CeilOfFivePercent /\ c <= measure.frame.width - CeilOfFivePercent}

\* C22, amended: the columns kept for run detection are those of
\* [m, width - m] with m = 0.05 * width rounded down, for every frame width,
\* and a bright run lying entirely outside [m, width - m] is never reported as
\* the segment.
C22_MarginRoundedDown ==
    measure.pc = "measured" =>
        /\ measure.result.kept =
               {c \in ScannedRow : c >= FloorOfFivePercent /\ c <= measure.frame.width - FloorOfFivePercent}
        /\ \A run \in segments(ScannedRow) :
               (run.last < FloorOfFivePercent \/ run.first > measure.frame.width - FloorOfFivePercent)
               => ~(/\ measure.result.raised = "none"
                    /\ measure.result.start = run.first
                    /\ measure.result.end = run.last)

\* a measured frame of a width of which 5% is no whole number, with a run in
\* the left edge band and a segment found further right
C22_Witness ==
    /\ measure.pc = "measured"
    /\ measure.frame.width = 30
    /\ 0 \in ScannedRow /\ 1 \notin ScannedRow
    /\ measure.result.raised = "none"
    /\ measure.result.start >= 2

\* the place of a row in the outward search from the nominal row: the row
\* itself, then the offsets +1, -1, +2, -2, ...
SearchRank(r, nominal) ==
    IF r = nominal THEN 0
    ELSE IF r > nominal THEN 2 * (r - nominal) - 1
    ELSE 2 * (nominal - r)

NominalRow == measure.frame.height \div 2

FirstUsableRow ==
    CHOOSE r \in FrameRows :
        /\ Usable(r) # {}
        /\ \A other \in FrameRows :
               Usable(other) # {} => SearchRank(r, NominalRow) <= SearchRank(other, NominalRow)

\* C23: when the nominal scan row has no usable segment and another row of the
\* frame has one, the segment of the first such row in the outward search order
\* is returned, with the index of that row.
C23_SearchesOutward ==
    (/\ measure.pc = "measured"
     /\ Usable(NominalRow) = {}
     /\ \E r \in FrameRows : Usable(r) # {})
    => /\ measure.result.raised = "none"
       /\ measure.result.row = FirstUsableRow
       /\ measure.result.start = main_segment(Usable(FirstUsableRow)).first
       /\ measure.result.end = main_segment(Usable(FirstUsableRow)).last

\* Python's round() of the quotient n / d of two naturals: to the nearest
\* integer, a half to the even one
RoundHalfEven(n, d) ==
    LET q == n \div d
        r == n % d
    IN  IF 2 * r < d THEN q
        ELSE IF 2 * r > d THEN q + 1
        ELSE IF q % 2 = 0 THEN q ELSE q + 1

\* C24: the row that is scanned is round(ratio * (cropped_height - 1)) for the
\* configured detection line ratio, which is kept within [0, 1] (in percent:
\* within 0 .. 100).
C24_ScanRowFollowsRatio ==
    /\ appstate.detection_line_ratio \in 0 .. 100
    /\ measure.pc = "measured" =>
           measure.result.row =
               RoundHalfEven(appstate.detection_line_ratio * (measure.frame.height - 1), 100)

Pixels == 1 .. Len(measure.gray_img)

\* C25, as stated: a pixel is bright exactly when its grey intensity is >= 90,
\* and every cell of the binarized image is 0 or 255.
C25_BrightFromNinety ==
    measure.pc = "binary" =>
        \A i \in Pixels :
            /\ measure.threshold_img[i] \in {0, 255}
            /\ measure.threshold_img[i] = 255 <=> measure.gray_img[i] >= 90

\* C25, amended: a pixel is bright exactly when its grey intensity is above
\* 90, that is 91 or more: a pixel of intensity exactly 90 is dark; every cell
\* of the binarized image is 0 or 255, and the image keeps its size.
C25_BrightAboveNinety ==
    measure.pc = "binary" =>
        /\ Len(measure.threshold_img) = Len(measure.gray_img)
        /\ \A i \in Pixels :
               /\ measure.threshold_img[i] \in {0, 255}
               /\ measure.threshold_img[i] = 255 <=> measure.gray_img[i] >= 91
               /\ measure.gray_img[i] = 90 => measure.threshold_img[i] = 0

\* a binarized image with a pixel of intensity exactly 90 next to one of 91
C25_Witness ==
    /\ measure.pc = "binary"
    /\ Len(measure.gray_img) = 2
    /\ measure.gray_img[1] = 90 /\ measure.threshold_img[1] = 0
    /\ measure.gray_img[2] = 91 /\ measure.threshold_img[2] = 255

SettingOps ==
    {"save_inflate_duration", "save_post_inflate_wait", "update_detection_line_ratio",
     "toggle_monitoring"}

C29_WorkersLeaveUIStateAlone ==
    second.open => \A a \in second.touched : a.thread = "ui"

\* C30: the rate handed to ThirdPage is the known length divided by the pixel
\* length of the calibration capture, which is never 0; a capture of pixel
\* length 0 is refused, opens no ThirdPage and leaves the stream worker's stop
\* flag unset; and a measured length is the pixel length times the rate.
C30_Calibration ==
    second.open =>
        /\ second.third.open
           => /\ second.calibration.outcome = "created"
              /\ second.third.rate.den > 0
              /\ second.third.rate.den = second.calibration.pixel_length
              /\ second.third.rate.num = second.calibration.real_length.value
        /\ second.calibration.outcome \in {"refused_input", "refused_error", "refused_zero"}
           => /\ ~second.third.open
              /\ ~second.image_stop_event
              /\ second.pc # "done"
        /\ second.measured # NoMeasurement
           => second.measured.length_mm.num * second.calibration.pixel_length
                  = second.measured.length_px * second.calibration.real_length.value
                    * second.measured.length_mm.den

\* after a calibration refused for a capture of pixel length 0, the known length
\* 10.5 mm was calibrated on 21 pixels (rate 0.5 mm, 5 tenths, a pixel), and a
\* measurement of 21 pixels gave 10.5 mm (105 tenths)
C30_Witness ==
    /\ second.open /\ second.refused_zero /\ second.third.open
    /\ second.third.rate.num = 5 * second.third.rate.den
    /\ second.measured.length_px = 21
    /\ second.measured.length_mm.num = 105 * second.measured.length_mm.den

----------------------------------------------------------------------------
(* Claims about the consistency of the session and the Notifier *)

\* the "inflate" info notifications among the calls of a handler
InflateInfos(cs) ==
    Cardinality({i \in 1..Len(cs) :
        cs[i].op = "notify_info" /\ cs[i].category = "inflate"})

\* C33: an "automatic inflate" info notification is made only with an actuator
\* request of the same trigger: after every handled measurement the number of
\* "inflate" info notifications of the handler equals the number of actuator
\* requests it started, also when no actuator host is configured.
C33_InfoOnlyWithRequest ==
    (page.open /\ last.op = "handle_measurement")
        => InflateInfos(calls) = last.started

\* C31: whenever the UI thread is between handlers, the session's width-alert
\* flag equals the Notifier's active flag of the category width_low.
C31_AlertFlagMirrorsNotifier ==
    page.open => page.width_alert_active = ActiveOf(notifier, "width_low")

\* C34: is_monitoring is true exactly when the threshold is set; while
\* is_monitoring is false the trigger counter is 0 and the alert flag is false;
\* a measurement handled while not monitoring changes neither of them, makes no
\* notification and starts no actuator request.
C34_MonitoringInvariant ==
    page.open =>
        /\ page.is_monitoring <=> page.threshold # <<>>
        /\ ~page.is_monitoring
           => page.trigger_count = 0 /\ ~page.width_alert_active
        /\ (last.op = "handle_measurement" /\ ~last.monitoring_before)
           => /\ calls = <<>>
              /\ last.started = 0 /\ last.triggered = 0
              /\ page.trigger_count = last.trigger_before
              /\ page.width_alert_active = last.alert_before

\* a measurement handled after monitoring was stopped, while the request of the
\* stopped session is still under way
C34_Witness ==
    /\ page.open /\ last.op = "handle_measurement" /\ ~last.monitoring_before
    /\ page.inflight = 1 /\ page.inflate_button = "disabled"
    /\ CountOf(notifier, "inflate_request") > 0

\* C35: the category state written by notify_error (count one higher, active)
\* and by notify_recovery on an active category (count 0, inactive) is the same
\* whether the message is transmitted, dropped by the rate limit, fails in
\* transport or is not sent at all; so a later notify_error of the same episode
\* never sends the first-occurrence message again, and a later notify_recovery
\* attempts nothing.
C35_StateWrittenWhateverTheOutcome ==
    \A i \in 1..Len(calls) :
        LET c == calls[i] IN
        /\ c.op = "notify_error"
           => /\ ActiveOf(notifier, c.category)
              /\ CountOf(notifier, c.category) = episode[c.category]
              /\ c.was_active => c.wording # "base"
        /\ c.op = "notify_recovery"
           => /\ ~ActiveOf(notifier, c.category)
              /\ CountOf(notifier, c.category) = 0
              /\ ~c.was_active => ~Attempted(c)

\* the recovery message of an active category has just been dropped by the rate
\* limit, and the category is cleared all the same
C35_Witness ==
    /\ calls # <<>> /\ calls[1].op = "notify_recovery"
    /\ calls[1].was_active
    /\ calls[1].outcome = "rate_limited"
    /\ ~ActiveOf(notifier, calls[1].category)
    /\ CountOf(notifier, calls[1].category) = 0

----------------------------------------------------------------------------
(* The capture cycles of the monitoring worker and the session they feed *)

\* the notify_error calls of the loop on one category are followed up to here
MaxCycleErrors == 2


CaptureFailedMessage == Chars(7 + 3)
MonitoringErrorMessage == Chars(5 + 3)
CaptureRecoveredMessage == Chars(8)
MonitoringRecoveredMessage == Chars(7)

\* the loop that hands a capture of pixel length 0 on like a measured length
update_data_loop_zero_measured(w, outcome, o1, o2) ==
    CASE outcome = "camera_error" ->
             NotifyError(w, "camera_processing", OPERATIONS_WEBHOOK,
                         CaptureFailedMessage, ThreadEscalateAfter, o1)
      [] outcome = "exception" ->
             NotifyError(w, "monitoring_unknown", OPERATIONS_WEBHOOK,
                         MonitoringErrorMessage, ThreadEscalateAfter, o1)
      [] OTHER ->
             NotifyRecovery(
                 NotifyRecovery(w, "camera_processing", OPERATIONS_WEBHOOK,
                                CaptureRecoveredMessage, o1),
                 "monitoring_unknown", OPERATIONS_WEBHOOK,
                 MonitoringRecoveredMessage, o2)

\* one pass of the while loop of _update_data_loop, from the return of
\* _fetch_image to the wait: the Notifier calls it makes in the worker thread;
\* the status texts and _handle_measurement are scheduled with after()
update_data_loop(w, outcome, o1, o2) ==
    CASE outcome = "camera_error" ->
             NotifyError(w, "camera_processing", OPERATIONS_WEBHOOK,
                         CaptureFailedMessage, ThreadEscalateAfter, o1)
      [] outcome = "exception" ->
             NotifyError(w, "monitoring_unknown", OPERATIONS_WEBHOOK,
                         MonitoringErrorMessage, ThreadEscalateAfter, o1)
      [] outcome = "zero" -> w
      [] OTHER ->
             NotifyRecovery(
                 NotifyRecovery(w, "camera_processing", OPERATIONS_WEBHOOK,
                                CaptureRecoveredMessage, o1),
                 "monitoring_unknown", OPERATIONS_WEBHOOK,
                 MonitoringRecoveredMessage, o2)

\* what a pass of the loop found: the session and the Notifier before it
Cycle(outcome, p, n) ==
    [op |-> "update_data_loop", outcome |-> outcome,
     page_before |-> p, error_state_before |-> n.error_state]

\* a capture cycle of the worker; the callback a measured cycle schedules is
\* HandleMeasurement
UpdateDataLoop(outcome, o1, o2) ==
    LET w == update_data_loop(World(page, notifier, now), outcome, o1, o2) IN
    /\ outcome = "camera_error"
       => CountOf(notifier, "camera_processing") < MaxCycleErrors
    /\ outcome = "exception"
       => CountOf(notifier, "monitoring_unknown") < MaxCycleErrors
    /\ Apply(w)
    /\ last' = Cycle(outcome, page, notifier)
    /\ UNCHANGED scenario

\* the webhook answers the posts of the session's handlers; those of the loop
\* may fail
Answered == [ok |-> TRUE, delay |-> 0]

CyclesNext ==
    \/ \E outcome \in ProcessingOutcomes, o1, o2 \in PageOutcomes :
           UpdateDataLoop(outcome, o1, o2)
    \/ \E mm \in SettingLengths :
           HandleMeasurement(mm, Answered, Answered, Answered)
    \/ \E response \in ActuatorResponses : RequestCompletes(response)
    \/ OnInflateSuccess(Answered)
    \/ OnInflateError(Answered)
    \/ RemoveInflateButton
    \/ \E entry \in ThresholdEntries : ToggleMonitoring(entry, Answered)

SpecCycles == Init /\ [][CyclesNext]_vars

\* C36: a capture cycle that yields pixel length 0 applies no measurement: it
\* makes no Notifier call and leaves the trigger counter, the alert flag, the
\* inflate button's guard and every Notifier category as they were, so the next
\* measurement below the threshold counts on from where the run stood.
C36_EmptyCycleChangesNothing ==
    /\ (last.op = "update_data_loop" /\ last.outcome = "zero")
       => /\ calls = <<>>
          /\ notifier.error_state = last.error_state_before
          /\ page.trigger_count = last.page_before.trigger_count
          /\ page.width_alert_active = last.page_before.width_alert_active
          /\ page.inflate_button = last.page_before.inflate_button
          /\ page.is_monitoring = last.page_before.is_monitoring
    /\ (last.op = "handle_measurement" /\ last.below)
       => page.trigger_count = last.trigger_before + 1

\* an empty cycle in the middle of a run of low measurements, while an earlier
\* capture failure is still active in the Notifier
C36_Witness ==
    /\ last.op = "update_data_loop" /\ last.outcome = "zero"
    /\ page.is_monitoring /\ page.trigger_count = 2 /\ page.width_alert_active
    /\ ActiveOf(notifier, "camera_processing")
    /\ ActiveOf(notifier, "width_low")

----------------------------------------------------------------------------
(* AppState: its update operations and load_from_file *)

\* what the entries, the callers and the lines of url.txt hold: no number, nan,
\* and numbers in the unit of the field (tenths of a second, seconds, percent;
\* the line of the wait in tenths of a second)
DurationValues == {NoNumber, NotANumber} \cup {Number(v) : v \in {-10, 0, 50}}
WaitValues == {NoNumber, NotANumber} \cup {Number(v) : v \in {-3, 0, 7}}
WaitLines == {NoNumber, NotANumber} \cup {Number(v) : v \in {-30, 0, 75}}
RatioValues == {NoNumber, NotANumber} \cup {Number(v) : v \in {-50, 10, 150}}

\* int() of a float: towards zero; x in tenths
int(x) == IF x >= 0 THEN x \div 10 ELSE -((-x) \div 10)

max(a, b) == IF a >= b THEN a ELSE b

\* the lines of url.txt: the two hosts, then the duration, the wait and the
\* ratio; a file may end after any line
FileLines(duration, wait, ratio) == <<NoNumber, NoNumber, duration, wait, ratio>>
Files ==
    {[found |-> FALSE, lines |-> <<>>]}
    \cup {[found |-> TRUE, lines |-> SubSeq(FileLines(d, w, r), 1, k)] :
             d \in DurationValues, w \in WaitLines, r \in RatioValues,
             k \in 0..5}

\* AppState.load_from_file
load_from_file(file) ==
    LET lines == file.lines
        s0 == NewAppState
        s1 == IF Len(lines) > 2
              THEN LET r == update_inflate_duration(s0, lines[3])
                   IN  IF r.ok THEN r.st
                       ELSE [r.st EXCEPT !.inflate_duration_seconds =
                                             Float(DefaultInflateDuration)]
              ELSE s0
        s2 == IF Len(lines) > 3
              THEN [s1 EXCEPT !.post_inflate_wait_seconds =
                        \* int(float("nan")) raises ValueError
                        IF lines[4].parses /\ ~lines[4].nan
                        THEN max(0, int(lines[4].value))
                        ELSE DefaultPostInflateWait]
              ELSE s1
        s3 == IF Len(lines) > 4
              THEN IF lines[5].parses
                   THEN update_detection_line_ratio(s2, lines[5])
                   ELSE [s2 EXCEPT !.detection_line_ratio =
                                       DefaultDetectionLineRatio]
              ELSE s2
    IN  IF ~file.found THEN s0 ELSE s3

\* what the AppState operations leave alone
afixed == <<nvars, page, scenario, threads, worker, measure, second>>

\* observer: the operation and what it was given
Updated(op, input) == [op |-> op, input |-> input, appstate_before |-> appstate]

UpdateInflateDuration(seconds) ==
    /\ appstate' = update_inflate_duration(appstate, seconds).st
    /\ last' = Updated("update_inflate_duration", seconds)
    /\ UNCHANGED afixed

UpdatePostInflateWait(seconds) ==
    /\ appstate' = update_post_inflate_wait(appstate, seconds)
    /\ last' = Updated("update_post_inflate_wait", seconds)
    /\ UNCHANGED afixed

UpdateRatio(ratio) ==
    /\ appstate' = update_detection_line_ratio(appstate, ratio)
    /\ last' = Updated("update_detection_line_ratio", ratio)
    /\ UNCHANGED afixed

\* App.__init__ at the next start of the program
LoadFromFile(file) ==
    /\ appstate' = load_from_file(file)
    /\ last' = Updated("load_from_file", file)
    /\ UNCHANGED afixed

AppStateNext ==
    \/ \E seconds \in DurationValues : UpdateInflateDuration(seconds)
    \/ \E seconds \in WaitValues : UpdatePostInflateWait(seconds)
    \/ \E ratio \in RatioValues : UpdateRatio(ratio)
    \/ \E file \in Files : LoadFromFile(file)

SpecAppState == NotifierInit /\ [][AppStateNext]_vars

\* C37: after any sequence of update_detection_line_ratio,
\* update_post_inflate_wait, update_inflate_duration and load_from_file calls the
\* detection line ratio lies in [0, 1], the wait is at least 0 and the inflate
\* duration is a number greater than 0; and the fields whose lines a loaded file
\* lacks have their defaults.
C37_AppStateInvariant ==
    /\ appstate.detection_line_ratio \in 0..100
    /\ appstate.post_inflate_wait_seconds >= 0
    /\ ~appstate.inflate_duration_seconds.nan
    /\ appstate.inflate_duration_seconds.value > 0
    /\ last.op = "load_from_file"
       => /\ Len(last.input.lines) < 3
             => appstate.inflate_duration_seconds = Float(DefaultInflateDuration)
          /\ Len(last.input.lines) < 4
             => appstate.post_inflate_wait_seconds = DefaultPostInflateWait
          /\ Len(last.input.lines) < 5
             => appstate.detection_line_ratio = DefaultDetectionLineRatio

----------------------------------------------------------------------------
(* The stream worker threads of a SecondPage across visits of the ThirdPage *)

\* the threads _start_stream has started are followed up to here
MaxStreamThreads == 2

\* SecondPage.__init__ with a camera URL configured, after its _start_stream:
\* the two events, the ThirdPage opened from it, the thread that wrote
\* _last_frame (0: None), and where each thread started by _start_stream stands
\* in _update_image_loop
NewStreamPage ==
    [open |-> TRUE,
     image_stop_event |-> FALSE,
     refresh_event |-> TRUE,
     third_open |-> FALSE,
     last_frame |-> 0,
     image_threads |-> <<"loop">>]

StreamInit ==
    /\ notifier = NewNotificationManager(MaxMessagesPerPeriod, PeriodSeconds)
    /\ now = 0
    /\ calls = <<>>
    /\ episode = [c \in Categories |-> 0]
    /\ recent = <<>>
    /\ burst = NoBurst(0)
    /\ page = NoPage /\ last = NoHandler /\ scenario = NoScenario
    /\ threads = NoThreads /\ worker = NoWorker /\ measure = NoMeasure
    /\ appstate = NewAppState
    /\ second = NewStreamPage

\* what the steps of the stream threads and their page leave alone
stfixed == <<nvars, pvars, threads, worker, measure, appstate>>

\* _start_stream
start_stream(p) ==
    [p EXCEPT !.image_stop_event = FALSE,
              !.refresh_event = TRUE,
              !.image_threads = Append(@, "loop")]

\* while not self._image_stop_event.is_set(): in thread i
ThreadLoopHead(i) ==
    /\ UNCHANGED stfixed
    /\ i <= Len(second.image_threads)
    /\ second.image_threads[i] = "loop"
    /\ second' = [second EXCEPT !.image_threads[i] =
                       IF second.image_stop_event THEN "done" ELSE "fetch"]

\* _fetch_image returns a frame or raises, in thread i
ThreadFetch(i, ok) ==
    /\ UNCHANGED stfixed
    /\ i <= Len(second.image_threads)
    /\ second.image_threads[i] = "fetch"
    /\ second' = [second EXCEPT !.image_threads[i] = IF ok THEN "store" ELSE "wait"]

\* thread i writes _latest_frame_width and _last_frame, converts the frame and
\* schedules _draw_image
ThreadStore(i) ==
    /\ UNCHANGED stfixed
    /\ i <= Len(second.image_threads)
    /\ second.image_threads[i] = "store"
    /\ second' = [second EXCEPT !.image_threads[i] = "wait", !.last_frame = i]

\* _wait_for_next_frame returns in thread i: the stop event is set, or the
\* refresh event is (refreshed; it is cleared), or the interval is over
ThreadWait(i, refreshed) ==
    /\ UNCHANGED stfixed
    /\ i <= Len(second.image_threads)
    /\ second.image_threads[i] = "wait"
    /\ refreshed => (second.refresh_event /\ ~second.image_stop_event)
    /\ second' = [second EXCEPT
                      !.image_threads[i] = "loop",
                      !.refresh_event = IF refreshed THEN FALSE ELSE @]

\* open_third_page with a usable calibration: the stop event is set and the
\* ThirdPage is created
StreamOpenThirdPage ==
    /\ UNCHANGED stfixed
    /\ second.open /\ ~second.third_open
    /\ second' = [second EXCEPT !.image_stop_event = TRUE, !.third_open = TRUE]

\* ThirdPage.on_close calls on_return: _on_third_page_return
OnThirdPageReturn ==
    /\ UNCHANGED stfixed
    /\ second.open /\ second.third_open
    /\ Len(second.image_threads) < MaxStreamThreads
    /\ second' = start_stream([second EXCEPT !.third_open = FALSE])

\* SecondPage.on_close
StreamOnClose ==
    /\ UNCHANGED stfixed
    /\ second.open /\ ~second.third_open
    /\ second' = [second EXCEPT !.image_stop_event = TRUE,
                                !.refresh_event = TRUE,
                                !.open = FALSE]

StreamNext ==
    \/ \E i \in 1..MaxStreamThreads : ThreadLoopHead(i)
    \/ \E i \in 1..MaxStreamThreads, ok \in BOOLEAN : ThreadFetch(i, ok)
    \/ \E i \in 1..MaxStreamThreads : ThreadStore(i)
    \/ \E i \in 1..MaxStreamThreads, refreshed \in BOOLEAN : ThreadWait(i, refreshed)
    \/ StreamOpenThirdPage
    \/ OnThirdPageReturn
    \/ StreamOnClose

SpecStream == StreamInit /\ [][StreamNext]_vars

\* the threads that are inside _update_image_loop with the stop event unseen
Running(p) == {i \in 1..Len(p.image_threads) : p.image_threads[i] # "done"}

\* the threads that are fetching a frame or writing the last-frame fields
Streaming(p) == {i \in 1..Len(p.image_threads) : p.image_threads[i] \in {"fetch", "store"}}

\* C32: at most one stream worker thread runs the preview loop of a SecondPage
\* at any time: whenever the ThirdPage is not open at most one thread is inside
\* the loop, and at no time are two threads fetching frames or writing the
\* page's last-frame fields.
C32_OneStreamWorker ==
    /\ Cardinality(Streaming(second)) <= 1
    /\ (second.open /\ ~second.third_open /\ ~second.image_stop_event)
       => Cardinality(Running(second)) <= 1

====
